---- MODULE Spec2Model ----
(***************************************************************************)
(* tickets-lib: the replay guard (ReplayGuard.accept / prune), the ticket  *)
(* identity it keys on (getTicketId over encodeCbor) and the quorum        *)
(* verifier (verifyQuorum over ed25519 verify).                            *)
(*                                                                         *)
(* Twelve specifications share this module:                                 *)
(*   Spec        one ReplayGuard, accept as one atomic call                *)
(*   SpecConc    accept statement by statement, several callers queued on  *)
(*               the JavaScript event loop                                 *)
(*   SpecTwin    two fresh ReplayGuards, one call on each                  *)
(*   SpecQuorum  verifyQuorum applied to inputs drawn from bounded sets    *)
(*   SpecSig     sign, derivePublicKey and verify on drawn inputs          *)
(*   SpecCbor    encodeCbor, decodeCbor and getTicketId on drawn values    *)
(*   SpecHex     hexToBytes and bytesToHex on drawn strings and bytes      *)
(*   SpecNonce   a chain of tickets checked by validateNonceSequence       *)
(*   SpecHelpers calculateSplitAmounts, isTicketTimingValid, the split     *)
(*               rules and the expiry checks on drawn arguments            *)
(*   SpecMultiSig a MultiSigTicket under addParticipantSignature           *)
(*   SpecEnvelope decodeAndVerifyTicket and fromEnvelope, check by check   *)
(*   SpecPerm    verifyQuorum on a signatures list and on a reordering     *)
(***************************************************************************)
EXTENDS Integers, Sequences, FiniteSets, TLC

VARIABLES
  seen,        \* ReplayGuard.seen : Map<TicketId, number>
  last,        \* the most recent accept call: inputs, table before, result
  acceptCount, \* per ticket identity, how many accept calls returned true
  regressed,   \* some accept call read an earlier time than a call before it
  maxNow,      \* the latest time any accept call has read
  seenNoPrune, \* table of a guard run on the same calls with prune removed
  retNoPrune,  \* that guard's result on the most recent call
  calls,       \* number of accept calls made
  pc,          \* SpecConc: each caller's position inside accept
  loc,         \* SpecConc: each caller's locals (ticket, now, ret)
  twin,        \* SpecTwin: per guard, the one call made on it
  q,           \* SpecQuorum: the input of verifyQuorum and its outcome
  sg,          \* SpecSig: inputs and outcomes of sign, derivePublicKey, verify
  cb,          \* SpecCbor: a value and the outcomes of encoding it
  hx,          \* SpecHex: a string or byte array and the conversion's outcome
  nc,          \* SpecNonce: the chain of nonces accepted so far, last check
  hp,          \* SpecHelpers: the arguments of a helper and what it returned
  mt,          \* SpecMultiSig: a MultiSigTicket and the last call made on it
  ev,          \* SpecEnvelope: what was received and how far its check got
  pm           \* SpecPerm: a signatures list, a reordering of it, the outcomes

guardVars == <<seen, last, acceptCount, regressed, maxNow,
               seenNoPrune, retNoPrune, calls>>
vars == <<seen, last, acceptCount, regressed, maxNow,
          seenNoPrune, retNoPrune, calls, pc, loc, twin, q, sg, cb, hx, nc,
          hp, mt, ev, pm>>

\* the variables of the specifications of pure functions
pureVars == <<sg, cb, hx, nc, hp, mt, ev, pm>>

\* the variables of the specifications added to the first four pure ones
lateVars == <<hp, mt, ev, pm>>

----------------------------------------------------------------------------
(* Bounds of the model *)

\* times are 0..MaxTime seconds
MaxTime == 3
\* accept calls per behaviour
MaxCalls == 4

\* ReplayGuard.prune runs its sweep once seen.size exceeds this. The source
\* constant is 1000; the model uses the same comparison (size > threshold)
\* with the threshold scaled down so that a table can grow past it.
PRUNE_SIZE == 2

MS_PER_SECOND == 1000

----------------------------------------------------------------------------
(* Tickets, canonical bytes and ticket identity *)

RESOLVE_TICKET_VERSION == "escrow.v1.ResolveTicket"

DealIds == {"D-1", "D-2"}

\* Schema-valid ResolveTicket values; only deal_id and expires_at vary.
\* confidence is held in tenths (9 stands for 0.9).
Ticket(d, e) ==
  [schema |-> RESOLVE_TICKET_VERSION, deal_id |-> d, action |-> "RELEASE",
   split_bps |-> 0, rationale_cid |-> "bafy", confidence |-> 9,
   nonce |-> 1, expires_at |-> e]

Tickets == {Ticket(d, e) : d \in DealIds, e \in 1..(MaxTime - 1)}

\* encodeCbor of a ticket: the map's entries in the canonical key order of the
\* encoder (shorter keys first, then bytewise), each key with its value.
encodeCbor(t) ==
  << <<"nonce", t.nonce>>, <<"action", t.action>>, <<"schema", t.schema>>,
     <<"deal_id", t.deal_id>>, <<"split_bps", t.split_bps>>,
     <<"confidence", t.confidence>>, <<"expires_at", t.expires_at>>,
     <<"rationale_cid", t.rationale_cid>> >>

\* createHash('sha256').update(bytes).digest('hex'): a collision-free digest,
\* kept as the tagged preimage.
sha256Hex(bytes) == <<"sha256", bytes>>

getTicketId(t) == <<"ticket:v1:", sha256Hex(encodeCbor(t))>>

TicketIds == {getTicketId(t) : t \in Tickets}

----------------------------------------------------------------------------
(* ReplayGuard *)

\* Math.floor(Date.now() / 1000)
nowSeconds(ms) == ms \div MS_PER_SECOND

\* the values Date.now() can return: each second, at its first and at its
\* last millisecond
ClockValues == {s * MS_PER_SECOND + f : s \in 0..MaxTime, f \in {0, MS_PER_SECOND - 1}}

\* variant: the boundary second counts as expired
isExpiredAtBoundary(ticket, now) == ticket.expires_at <= now

\* accept, step 1: ticket.expires_at < now
isExpired(ticket, now) == ticket.expires_at < now

\* variant: the lookup uses a key that is never in the table
isReplayNever(table, id) == FALSE

\* accept, step 2: this.seen.has(id)
isReplay(table, id) == id \in DOMAIN table

\* accept, step 3: this.seen.set(id, ticket.expires_at)
markSeen(table, id, expiry) ==
  [i \in DOMAIN table \cup {id} |-> IF i = id THEN expiry ELSE table[i]]

\* variant: the sweep also deletes entries expiring at `now`
pruneAtBoundary(table, now) ==
  IF Cardinality(DOMAIN table) > PRUNE_SIZE
  THEN [i \in {j \in DOMAIN table : ~(table[j] <= now)} |-> table[i]]
  ELSE table

\* prune(now): once the table holds more than PRUNE_SIZE entries, delete every
\* entry whose recorded expiry is < now
prune(table, now) ==
  IF Cardinality(DOMAIN table) > PRUNE_SIZE
  THEN [i \in {j \in DOMAIN table : ~(table[j] < now)} |-> table[i]]
  ELSE table

\* variant: the ticket is recorded before the expiry check
acceptRecordsFirst(table, ticket, now) ==
  LET id == getTicketId(ticket)
  IN IF isReplay(table, id)
     THEN [ret |-> FALSE, seen |-> table]
     ELSE IF isExpired(ticket, now)
          THEN [ret |-> FALSE, seen |-> markSeen(table, id, ticket.expires_at)]
          ELSE [ret |-> TRUE,
                seen |-> prune(markSeen(table, id, ticket.expires_at), now)]

\* accept(ticket) on a guard whose table is `table`, with `now` the value read
\* from the clock: the result and the table afterwards
accept(table, ticket, now) ==
  IF isExpired(ticket, now)
  THEN [ret |-> FALSE, seen |-> table]
  ELSE LET id == getTicketId(ticket)
       IN IF isReplay(table, id)
          THEN [ret |-> FALSE, seen |-> table]
          ELSE [ret |-> TRUE,
                seen |-> prune(markSeen(table, id, ticket.expires_at), now)]

\* the same guard with the call to prune left out
acceptNoPrune(table, ticket, now) ==
  IF isExpired(ticket, now)
  THEN [ret |-> FALSE, seen |-> table]
  ELSE LET id == getTicketId(ticket)
       IN IF isReplay(table, id)
          THEN [ret |-> FALSE, seen |-> table]
          ELSE [ret |-> TRUE, seen |-> markSeen(table, id, ticket.expires_at)]

EmptyTable == [i \in {} |-> 0]

NoCall == [called |-> FALSE, ticket |-> Ticket("D-1", 1), now |-> 0,
           pre |-> EmptyTable, ret |-> FALSE]

InitGuard ==
  /\ seen = EmptyTable
  /\ last = NoCall
  /\ acceptCount = [i \in TicketIds |-> 0]
  /\ regressed = FALSE
  /\ maxNow = 0
  /\ seenNoPrune = EmptyTable
  /\ retNoPrune = FALSE
  /\ calls = 0

\* One call guard.accept(ticket). ms is what Date.now() returns to this call:
\* wall-clock time, which may have been set back since an earlier call.
Accept(ticket, ms) ==
  /\ calls < MaxCalls
  /\ LET now == nowSeconds(ms)
         r == accept(seen, ticket, now)
         s == acceptNoPrune(seenNoPrune, ticket, now)
         id == getTicketId(ticket)
     IN /\ seen' = r.seen
        /\ last' = [called |-> TRUE, ticket |-> ticket, now |-> now,
                    pre |-> seen, ret |-> r.ret]
        /\ acceptCount' = IF r.ret
                          THEN [acceptCount EXCEPT ![id] = @ + 1]
                          ELSE acceptCount
        /\ regressed' = (regressed \/ now < maxNow)
        /\ maxNow' = IF now > maxNow THEN now ELSE maxNow
        /\ seenNoPrune' = s.seen
        /\ retNoPrune' = s.ret
  /\ calls' = calls + 1
  /\ UNCHANGED <<pc, loc, twin, q, pureVars>>

AcceptCall == \E t \in Tickets, ms \in ClockValues : Accept(t, ms)

----------------------------------------------------------------------------
(* accept statement by statement: callers queued on the event loop *)

\* callers that may have a call to accept outstanding at once
NumCallers == 2

Callers == 1..NumCallers

\* the tickets the callers offer: two that expire together and a later one
ConcTickets == {Ticket("D-1", 1), Ticket("D-2", 1), Ticket("D-1", 2)}

\* the values Date.now() returns to them: before, at and after the expiries
ConcClockValues == {0, MS_PER_SECOND, 2 * MS_PER_SECOND + 1}

\* statements of accept between the lookup this.seen.has(id) and the end of
\* the method: the check-then-insert sequence
Section == {"has", "set", "prune"}

Running == Section \cup {"entered"}

NoLocals == [ticket |-> Ticket("D-1", 1), now |-> 0, ret |-> FALSE]

InitConc ==
  /\ pc = [p \in Callers |-> "idle"]
  /\ loc = [p \in Callers |-> NoLocals]

\* variant: accept yields between its statements (an await inside it)
CanRunAnytime(p) == TRUE

\* accept is a synchronous method with no await: once the event loop has
\* entered one call, no other call runs a statement until it has returned.
CanRun(p) == \A o \in Callers \ {p} : pc[o] \notin Running

\* a caller's task calling guard.accept(ticket) is posted to the event loop
Invoke(p, t) ==
  /\ pc[p] = "idle"
  /\ pc' = [pc EXCEPT ![p] = "queued"]
  /\ loc' = [loc EXCEPT ![p] = [ticket |-> t, now |-> 0, ret |-> FALSE]]
  /\ UNCHANGED <<guardVars, twin, q, pureVars>>

\* line 15: const now = Math.floor(Date.now() / 1000)
ReadClock(p, ms) ==
  /\ pc[p] = "queued"
  /\ CanRun(p)
  /\ pc' = [pc EXCEPT ![p] = "entered"]
  /\ loc' = [loc EXCEPT ![p].now = nowSeconds(ms)]
  /\ UNCHANGED <<guardVars, twin, q, pureVars>>

\* lines 18-20: if (ticket.expires_at < now) return false
CheckExpiry(p) ==
  /\ pc[p] = "entered"
  /\ CanRun(p)
  /\ \/ /\ isExpired(loc[p].ticket, loc[p].now)
        /\ pc' = [pc EXCEPT ![p] = "done"]
        /\ loc' = [loc EXCEPT ![p] = NoLocals]
     \/ /\ ~isExpired(loc[p].ticket, loc[p].now)
        /\ pc' = [pc EXCEPT ![p] = "has"]
        /\ UNCHANGED loc
  /\ UNCHANGED <<guardVars, twin, q, pureVars>>

\* lines 23-26: if (this.seen.has(id)) return false
CheckSeen(p) ==
  /\ pc[p] = "has"
  /\ CanRun(p)
  /\ \/ /\ isReplay(seen, getTicketId(loc[p].ticket))
        /\ pc' = [pc EXCEPT ![p] = "done"]
        /\ loc' = [loc EXCEPT ![p] = NoLocals]
     \/ /\ ~isReplay(seen, getTicketId(loc[p].ticket))
        /\ pc' = [pc EXCEPT ![p] = "set"]
        /\ UNCHANGED loc
  /\ UNCHANGED <<guardVars, twin, q, pureVars>>

\* line 29: this.seen.set(id, ticket.expires_at)
Insert(p) ==
  /\ pc[p] = "set"
  /\ CanRun(p)
  /\ seen' = markSeen(seen, getTicketId(loc[p].ticket), loc[p].ticket.expires_at)
  /\ pc' = [pc EXCEPT ![p] = "prune"]
  /\ UNCHANGED <<last, acceptCount, regressed, maxNow,
                 seenNoPrune, retNoPrune, calls, loc, twin, q, pureVars>>

\* lines 32-34: this.prune(now); return true
PruneAndReturn(p) ==
  /\ pc[p] = "prune"
  /\ CanRun(p)
  /\ seen' = prune(seen, loc[p].now)
  /\ pc' = [pc EXCEPT ![p] = "done"]
  /\ loc' = [loc EXCEPT ![p] = [NoLocals EXCEPT !.ret = TRUE]]
  /\ UNCHANGED <<last, acceptCount, regressed, maxNow,
                 seenNoPrune, retNoPrune, calls, twin, q, pureVars>>

\* the caller takes the result (loc[p].ret; the other locals are gone)
Return(p) ==
  /\ pc[p] = "done"
  /\ pc' = [pc EXCEPT ![p] = "idle"]
  /\ loc' = [loc EXCEPT ![p] = NoLocals]
  /\ UNCHANGED <<guardVars, twin, q, pureVars>>

----------------------------------------------------------------------------
(* Two guards side by side *)

Guards == {1, 2}

NoTwinCall == [called |-> FALSE, ticket |-> Ticket("D-1", 1), nowArg |-> 0,
               pre |-> EmptyTable, ret |-> FALSE, post |-> EmptyTable]

InitTwin == twin = [g \in Guards |-> NoTwinCall]

\* The first call on the freshly constructed guard g. nowArg is the time the
\* caller holds and would supply; accept has no parameter for it and takes
\* its time from Date.now(), which returns ms.
TwinAccept(g, ticket, nowArg, ms) ==
  /\ ~twin[g].called
  /\ LET r == accept(EmptyTable, ticket, nowSeconds(ms))
     IN twin' = [twin EXCEPT ![g] =
                   [called |-> TRUE, ticket |-> ticket, nowArg |-> nowArg,
                    pre |-> EmptyTable, ret |-> r.ret, post |-> r.seen]]
  /\ UNCHANGED <<guardVars, pc, loc, q, pureVars>>

NextTwin ==
  \E g \in Guards, t \in Tickets, a \in 0..MaxTime, ms \in ClockValues :
     TwinAccept(g, t, a, ms)

----------------------------------------------------------------------------
(* ed25519 verify and the quorum verifier *)

KEY_LENGTH == 32
SIGNATURE_LENGTH == 64

\* signatures submitted in one verifyQuorum call
MaxSigs == 3
\* thresholds are 0..MaxThreshold
MaxThreshold == 3

\* A 32 byte public key; the keys differ in their last byte only.
PubKey(b) == [i \in 1..KEY_LENGTH |-> IF i = KEY_LENGTH THEN b ELSE 1]

\* A 31 byte array: the common prefix of the keys above, not a public key.
ShortKey == [i \in 1..(KEY_LENGTH - 1) |-> 1]

\* A detached signature: `length` bytes that the holder of the secret behind
\* `signer` produced over `msg`; `r` tells apart two signatures of one signer
\* over one message. signer <<>> is a byte string nobody signed.
Signature(signer, msg, r, length) ==
  [signer |-> signer, msg |-> msg, r |-> r, length |-> length]

\* ed25519.verify(sig, message, pk) of the curve library: true exactly for a
\* signature made over these bytes with the secret behind pk
ed25519Verify(sig, message, pk) == sig.signer = pk /\ sig.msg = message

\* variant: the signature's length is not checked; the curve library turns
\* down what is not a signature
verifyNoSignatureGuard(message, sig, pk) ==
  IF Len(pk) # KEY_LENGTH THEN "InvalidKeyLength"
  ELSE IF sig.length = SIGNATURE_LENGTH /\ ed25519Verify(sig, message, pk)
       THEN "true" ELSE "false"

\* variant: the message is handed to the curve library where it expects the
\* signature, so nothing ever verifies
verifyArgsSwapped(message, sig, pk) ==
  IF sig.length # SIGNATURE_LENGTH THEN "InvalidSignatureLength"
  ELSE IF Len(pk) # KEY_LENGTH THEN "InvalidKeyLength"
  ELSE "false"

\* verify(message, signature, publicKey): the length guards, then the curve
\* check. The outcome is "true", "false" or the error thrown.
verify(message, sig, pk) ==
  IF sig.length # SIGNATURE_LENGTH THEN "InvalidSignatureLength"
  ELSE IF Len(pk) # KEY_LENGTH THEN "InvalidKeyLength"
  ELSE IF ed25519Verify(sig, message, pk) THEN "true" ELSE "false"

HexDigits == <<"0", "1", "2", "3", "4", "5", "6", "7",
               "8", "9", "a", "b", "c", "d", "e", "f">>

\* Buffer.from(pubKey).toString('hex'): two lowercase digits per byte
toHexString(bytes) ==
  [i \in 1..(2 * Len(bytes)) |->
     LET b == bytes[(i + 1) \div 2]
     IN IF i % 2 = 1 THEN HexDigits[(b \div 16) + 1] ELSE HexDigits[(b % 16) + 1]]

\* variant: keys are compared by length alone
isAuthorizedByLength(authorizedPubKeys, pubKey) ==
  \E n \in 1..Len(authorizedPubKeys) : Len(authorizedPubKeys[n]) = Len(pubKey)

\* authorizedPubKeys.some(k => k.length === pubKey.length &&
\*                             k.every((byte, i) => byte === pubKey[i]))
isAuthorized(authorizedPubKeys, pubKey) ==
  \E n \in 1..Len(authorizedPubKeys) :
     LET k == authorizedPubKeys[n]
     IN /\ Len(k) = Len(pubKey)
        /\ \A i \in 1..Len(k) : k[i] = pubKey[i]

\* variant: the set of used keys is never consulted
alreadyUsedNever(usedPubKeys, keyString) == FALSE

\* usedPubKeys.has(keyString)
alreadyUsed(usedPubKeys, keyString) == keyString \in usedPubKeys

\* variant: the count must exceed the threshold
meetsThresholdStrict(validCount, threshold) == validCount > threshold

\* validCount >= threshold
meetsThreshold(validCount, threshold) == validCount >= threshold

\* the loop's state before the first pair: validCount, usedPubKeys, and (for
\* observation) the pairs handed to verify and the keys counted, in order
QuorumStart ==
  [validCount |-> 0, usedPubKeys |-> {}, verified |-> <<>>, counted |-> <<>>,
   thrown |-> "none"]

\* variant: the signature is verified before the allowlist is consulted
quorumStepVerifyFirst(st, pair, authorizedPubKeys, ticketBytes) ==
  LET keyString == toHexString(pair.pubKey)
      v == verify(ticketBytes, pair.sig, pair.pubKey)
      tried == [st EXCEPT !.verified = Append(@, pair)]
  IN IF v \notin {"true", "false"} THEN [tried EXCEPT !.thrown = v]
     ELSE IF ~isAuthorized(authorizedPubKeys, pair.pubKey) THEN tried
     ELSE IF alreadyUsed(st.usedPubKeys, keyString) THEN tried
     ELSE IF v = "true"
          THEN [tried EXCEPT !.usedPubKeys = @ \cup {keyString},
                             !.validCount = @ + 1,
                             !.counted = Append(@, pair.pubKey)]
          ELSE tried

\* one iteration of the loop over `signatures`
quorumStep(st, pair, authorizedPubKeys, ticketBytes) ==
  IF ~isAuthorized(authorizedPubKeys, pair.pubKey) THEN st
  ELSE LET keyString == toHexString(pair.pubKey)
       IN IF alreadyUsed(st.usedPubKeys, keyString) THEN st
          ELSE LET v == verify(ticketBytes, pair.sig, pair.pubKey)
                   tried == [st EXCEPT !.verified = Append(@, pair)]
               IN IF v = "true"
                  THEN [tried EXCEPT !.usedPubKeys = @ \cup {keyString},
                                     !.validCount = @ + 1,
                                     !.counted = Append(@, pair.pubKey)]
                  ELSE IF v = "false" THEN tried
                  ELSE [tried EXCEPT !.thrown = v]

\* the loop from pair n on; an error thrown by verify ends it
RECURSIVE quorumLoop(_, _, _, _, _)
quorumLoop(st, n, signatures, authorizedPubKeys, ticketBytes) ==
  IF n > Len(signatures) \/ st.thrown # "none" THEN st
  ELSE quorumLoop(quorumStep(st, signatures[n], authorizedPubKeys, ticketBytes),
                  n + 1, signatures, authorizedPubKeys, ticketBytes)

\* verifyQuorum(ticket, signatures, authorizedPubKeys, threshold): the outcome
\* ("true", "false" or the error thrown) with the loop's final state
verifyQuorum(ticket, signatures, authorizedPubKeys, threshold) ==
  LET st == quorumLoop(QuorumStart, 1, signatures, authorizedPubKeys,
                       encodeCbor(ticket))
  IN [result |-> IF st.thrown # "none" THEN st.thrown
                 ELSE IF meetsThreshold(st.validCount, threshold) THEN "true"
                 ELSE "false",
      validCount |-> st.validCount, usedPubKeys |-> st.usedPubKeys,
      verified |-> st.verified, counted |-> st.counted]

\* the ticket put to the quorum, and another ticket of the same deal
QuorumTicket == Ticket("D-1", 2)
OtherTicket == Ticket("D-1", 1)

SignerKeys == {PubKey(1), PubKey(2), PubKey(3)}

\* the (pubKey, sig) pairs a caller may submit
SigPool ==
  LET good(k, r) == Signature(PubKey(k), encodeCbor(QuorumTicket), r,
                              SIGNATURE_LENGTH)
  IN { [pubKey |-> PubKey(1), sig |-> good(1, 0)],
       [pubKey |-> PubKey(1), sig |-> good(1, 1)],
       [pubKey |-> PubKey(2), sig |-> good(2, 0)],
       [pubKey |-> PubKey(3), sig |-> good(3, 0)],
       \* signer 1's signature presented under key 2
       [pubKey |-> PubKey(2), sig |-> good(1, 0)],
       \* signer 3's signature over another ticket
       [pubKey |-> PubKey(3),
        sig |-> Signature(PubKey(3), encodeCbor(OtherTicket), 0, SIGNATURE_LENGTH)],
       \* a 31 byte key
       [pubKey |-> ShortKey, sig |-> good(1, 0)],
       \* a 63 byte signature
       [pubKey |-> PubKey(2),
        sig |-> Signature(PubKey(2), encodeCbor(QuorumTicket), 0,
                          SIGNATURE_LENGTH - 1)] }

SigLists == UNION {[1..n -> SigPool] : n \in 0..MaxSigs}

\* allowlists
AuthLists ==
  { <<>>, <<PubKey(1)>>, <<PubKey(1), PubKey(2)>>, <<PubKey(3), PubKey(1)>>,
    <<PubKey(1), PubKey(2), PubKey(3)>>, <<PubKey(2), ShortKey>> }

InitQuorum ==
  q \in [stage : {"call"}, ticket : {QuorumTicket, OtherTicket}, signatures : SigLists,
         authorizedPubKeys : AuthLists, threshold : 0..MaxThreshold]

\* the call returns or throws
VerifyQuorum ==
  /\ q.stage = "call"
  /\ q' = [stage |-> "returned", ticket |-> q.ticket,
           signatures |-> q.signatures,
           authorizedPubKeys |-> q.authorizedPubKeys,
           threshold |-> q.threshold,
           out |-> verifyQuorum(q.ticket, q.signatures, q.authorizedPubKeys,
                                q.threshold)]
  /\ UNCHANGED <<guardVars, pc, loc, twin, pureVars>>

----------------------------------------------------------------------------
(* Components at rest *)

\* verifyQuorum has not been called
InitQuorumIdle == q = [stage |-> "none"]

\* no helper, multi-signature, envelope or reordered quorum call has been made
InitLateIdle ==
  /\ hp = [stage |-> "none"]
  /\ mt = [stage |-> "none"]
  /\ ev = [stage |-> "none"]
  /\ pm = [stage |-> "none"]

\* no pure function has been called
InitPureIdle ==
  /\ sg = [stage |-> "none"]
  /\ cb = [stage |-> "none"]
  /\ hx = [stage |-> "none"]
  /\ nc = [stage |-> "none"]
  /\ InitLateIdle

----------------------------------------------------------------------------
(* Signature engine: sign, derivePublicKey, verify *)

SEED_LENGTH == 32
EXPANDED_SECRET_LENGTH == 64

\* A 32 byte seed; the seeds differ in their last byte only.
Seed(b) == [i \in 1..SEED_LENGTH |-> IF i = SEED_LENGTH THEN b - 1 ELSE 0]

\* ed25519.getPublicKey(seed) of the curve library: a one-way function of the
\* seed, here a bytewise shift, so that different seeds have different keys
\* and Seed(b) has the key PubKey(b)
ed25519GetPublicKey(seed) == [i \in 1..Len(seed) |-> (seed[i] + 1) % 256]

\* ed25519.sign(message, seed) of the curve library: deterministic, made with
\* the secret behind the seed's public key
ed25519Sign(message, seed) ==
  Signature(ed25519GetPublicKey(seed), message, 0, SIGNATURE_LENGTH)

\* variant: the seed is taken from the end of a 64 byte secret
normalizeSecretTail(raw) ==
  IF Len(raw) = SEED_LENGTH THEN [err |-> "none", seed |-> raw]
  ELSE IF Len(raw) = EXPANDED_SECRET_LENGTH
       THEN [err |-> "none",
             seed |-> SubSeq(raw, SEED_LENGTH + 1, EXPANDED_SECRET_LENGTH)]
       ELSE [err |-> "InvalidKeyLength", seed |-> <<>>]

\* normalizeSecret(secret): 32 bytes as they are, of 64 bytes the first 32,
\* any other length throws
normalizeSecret(raw) ==
  IF Len(raw) = SEED_LENGTH THEN [err |-> "none", seed |-> raw]
  ELSE IF Len(raw) = EXPANDED_SECRET_LENGTH
       THEN [err |-> "none", seed |-> SubSeq(raw, 1, SEED_LENGTH)]
       ELSE [err |-> "InvalidKeyLength", seed |-> <<>>]

NoSignature == Signature(<<>>, <<>>, 0, 0)

\* sign(message, secret): the signature, or the error thrown
sign(message, secret) ==
  LET n == normalizeSecret(secret)
  IN IF n.err # "none" THEN [err |-> n.err, sig |-> NoSignature]
     ELSE [err |-> "none", sig |-> ed25519Sign(message, n.seed)]

\* derivePublicKey(secret): the public key, or the error thrown
derivePublicKey(secret) ==
  LET n == normalizeSecret(secret)
  IN IF n.err # "none" THEN [err |-> n.err, key |-> <<>>]
     ELSE [err |-> "none", key |-> ed25519GetPublicKey(n.seed)]

\* byte arrays of the given length
Zeros(n) == [i \in 1..n |-> 0]

\* secrets a caller may pass: seeds, 64 byte secrets (a seed followed by 32
\* more bytes, the same or another seed) and arrays of other lengths
Secrets ==
  {Seed(1), Seed(2), Seed(3)}
  \cup {Seed(1) \o Seed(2), Seed(2) \o Seed(2), Seed(3) \o Seed(1)}
  \cup {Zeros(n) : n \in {0, SEED_LENGTH - 1, SEED_LENGTH + 1,
                          EXPANDED_SECRET_LENGTH - 1, EXPANDED_SECRET_LENGTH + 1}}

\* messages: canonical bytes of two tickets
Messages == {encodeCbor(QuorumTicket), encodeCbor(OtherTicket)}

\* public keys a verifier may hold: the signers' keys, a 31 and a 33 byte array
VerifyKeys == SignerKeys \cup {ShortKey, ShortKey \o <<1, 1>>}

\* lengths of the signature handed to verify: as signed, cut by one byte,
\* longer by one byte
VerifySigLengths ==
  {SIGNATURE_LENGTH - 1, SIGNATURE_LENGTH, SIGNATURE_LENGTH + 1}

InitSigCall == sg \in [stage : {"call"}, message : Messages, secret : Secrets]

\* sign(message, secret) and derivePublicKey(secret) return or throw
SignAndDerive ==
  /\ sg.stage = "call"
  /\ sg' = [stage |-> "signed", message |-> sg.message, secret |-> sg.secret,
            signed |-> sign(sg.message, sg.secret),
            derived |-> derivePublicKey(sg.secret)]
  /\ UNCHANGED <<guardVars, pc, loc, twin, q, cb, hx, nc, lateVars>>

\* verify(vm, signature, pk) returns or throws, the signature being the one
\* just made, whole or with its length changed
Verify(vm, sigLength, pk) ==
  /\ sg.stage = "signed"
  /\ sg.signed.err = "none"
  /\ LET vsig == [sg.signed.sig EXCEPT !.length = sigLength]
     IN sg' = [stage |-> "verified", message |-> sg.message,
               secret |-> sg.secret, signed |-> sg.signed,
               derived |-> sg.derived, vmessage |-> vm, vsig |-> vsig,
               vkey |-> pk, verdict |-> verify(vm, vsig, pk)]
  /\ UNCHANGED <<guardVars, pc, loc, twin, q, cb, hx, nc, lateVars>>

NextSig ==
  \/ SignAndDerive
  \/ \E vm \in Messages, n \in VerifySigLengths, pk \in VerifyKeys :
       Verify(vm, n, pk)

InitSig ==
  /\ InitGuard /\ InitConc /\ InitTwin /\ InitQuorumIdle
  /\ InitSigCall
  /\ cb = [stage |-> "none"] /\ hx = [stage |-> "none"] /\ nc = [stage |-> "none"]
  /\ InitLateIdle

SpecSig == InitSig /\ [][NextSig]_vars

----------------------------------------------------------------------------
(* Canonical CBOR: encodeCbor and decodeCbor over JSON-like values, to the byte *)

MaxItems == 2

\* UTF-8 bytes of the strings a ticket is made of (all ASCII)
utf8(s) ==
  CASE s = "nonce" ->
       <<110, 111, 110, 99, 101>>
    [] s = "action" ->
       <<97, 99, 116, 105, 111, 110>>
    [] s = "schema" ->
       <<115, 99, 104, 101, 109, 97>>
    [] s = "deal_id" ->
       <<100, 101, 97, 108, 95, 105, 100>>
    [] s = "split_bps" ->
       <<115, 112, 108, 105, 116, 95, 98, 112, 115>>
    [] s = "confidence" ->
       <<99, 111, 110, 102, 105, 100, 101, 110, 99, 101>>
    [] s = "expires_at" ->
       <<101, 120, 112, 105, 114, 101, 115, 95, 97, 116>>
    [] s = "rationale_cid" ->
       <<114, 97, 116, 105, 111, 110, 97, 108, 101, 95, 99, 105, 100>>
    [] s = "escrow.v1.ResolveTicket" ->
       <<101, 115, 99, 114, 111, 119, 46, 118, 49, 46, 82, 101, 115, 111, 108, 118, 101, 84, 105, 99, 107, 101, 116>>
    [] s = "D-1" ->
       <<68, 45, 49>>
    [] s = "D-2" ->
       <<68, 45, 50>>
    [] s = "RELEASE" ->
       <<82, 69, 76, 69, 65, 83, 69>>
    [] s = "bafy" ->
       <<98, 97, 102, 121>>
    [] s = "baaaaaaaaaaaaaaaaaaaaaaaaaaaaaaaaaaaaaaaaaaaaa" ->
       <<98, 97, 97, 97, 97, 97, 97, 97, 97, 97, 97, 97, 97, 97, 97, 97,
       97, 97, 97, 97, 97, 97, 97, 97, 97, 97, 97, 97, 97, 97, 97, 97, 97,
       97, 97, 97, 97, 97, 97, 97, 97, 97, 97, 97, 97, 97>>
    [] s = "REFUND" ->
       <<82, 69, 70, 85, 78, 68>>
    [] s = "SPLIT" ->
       <<83, 80, 76, 73, 84>>
    [] s = "BURN" ->
       <<66, 85, 82, 78>>
    [] s = "ab" ->
       <<97, 98>>
    [] s = "" ->
       <<>>

\* JS values: a kind and a payload.  A string is its UTF-8 bytes, an array a
\* sequence of values, a plain object its entries <<key, value>> in insertion
\* order (keys are strings, no key twice), a fraction its tenths.
JsNull == [t |-> "null", v |-> 0]
JsUndefined == [t |-> "undefined", v |-> 0]
JsBool(b) == [t |-> "boolean", v |-> b]
JsInt(n) == [t |-> "integer", v |-> n]
JsFloat(tenths) == [t |-> "float", v |-> tenths]
JsStr(bytes) == [t |-> "string", v |-> bytes]
JsArr(items) == [t |-> "array", v |-> items]
JsObj(entries) == [t |-> "object", v |-> entries]

\* assertNoUndefined(value) returns (TRUE) or throws (FALSE): undefined itself,
\* or any element of an array, or any property value of an object, throws
RECURSIVE assertNoUndefined(_)
assertNoUndefined(value) ==
  IF value.t = "undefined" THEN FALSE
  ELSE IF value.t = "array"
       THEN \A i \in 1..Len(value.v) : assertNoUndefined(value.v[i])
  ELSE IF value.t = "object"
       THEN \A i \in 1..Len(value.v) : assertNoUndefined(value.v[i][2])
  ELSE TRUE

\* variant: every argument is written in the one byte form
tokenHeadOneByte(major, n) ==
  IF n < 24 THEN <<major * 32 + n>> ELSE <<major * 32 + 24, n % 256>>

\* cborg: the head of a data item, its argument n in the shortest of the
\* forms (in the initial byte, then 1, 2 or 4 bytes, big-endian; the 8 byte
\* form is for arguments from 2^32 on, which no value here has)
tokenHead(major, n) ==
  IF n < 24 THEN <<major * 32 + n>>
  ELSE IF n < 256 THEN <<major * 32 + 24, n>>
  ELSE IF n < 65536 THEN <<major * 32 + 25, n \div 256, n % 256>>
  ELSE <<major * 32 + 26, n \div 16777216, (n \div 65536) % 256,
         (n \div 256) % 256, n % 256>>

\* cborg: a fraction is written as a 64 bit float, 0xfb and eight bytes; the
\* eight bytes stand for the IEEE 754 bits, different for different fractions
floatBits(tenths) == <<0, 0, 0, 0, 0, 0, 0, tenths>>

\* cborg compares two map keys by the length of their bytes first and bytewise
\* when the lengths agree
keyBefore(a, b) ==
  \/ Len(a) < Len(b)
  \/ /\ Len(a) = Len(b)
     /\ \E i \in 1..Len(a) :
          /\ a[i] < b[i]
          /\ \A j \in 1..(i - 1) : a[j] = b[j]

\* variant: the entries are written in insertion order
insertionOrder(entries) == entries

\* cborg sorts the entries of a map by key before writing them
sortEntries(entries) ==
  LET n == Len(entries)
      rank(i) == Cardinality({j \in 1..n : keyBefore(entries[j][1], entries[i][1])}) + 1
  IN [r \in 1..n |-> entries[CHOOSE i \in 1..n : rank(i) = r]]

RECURSIVE flatten(_)
flatten(chunks) ==
  IF chunks = <<>> THEN <<>> ELSE Head(chunks) \o flatten(Tail(chunks))

\* cborgEncode(value): the bytes of one data item
RECURSIVE cborgEncode(_)
cborgEncode(value) ==
  CASE value.t = "integer" ->
         IF value.v >= 0 THEN tokenHead(0, value.v)
         ELSE tokenHead(1, (0 - 1) - value.v)
    [] value.t = "string" -> tokenHead(3, Len(value.v)) \o value.v
    [] value.t = "array" ->
         tokenHead(4, Len(value.v))
           \o flatten([i \in 1..Len(value.v) |-> cborgEncode(value.v[i])])
    [] value.t = "object" ->
         LET sorted == sortEntries(value.v)
         IN tokenHead(5, Len(sorted))
              \o flatten([i \in 1..Len(sorted) |->
                           cborgEncode(JsStr(sorted[i][1]))
                             \o cborgEncode(sorted[i][2])])
    [] value.t = "boolean" -> IF value.v THEN <<245>> ELSE <<244>>
    [] value.t = "null" -> <<246>>
    [] value.t = "undefined" -> <<247>>
    [] value.t = "float" -> <<251>> \o floatBits(value.v)

\* variant: nothing is looked for before the value is handed to the encoder
encodeCborUnchecked(value) == [err |-> "none", bytes |-> cborgEncode(value)]

\* encodeCbor(value) for any JSON-like value, to the byte: the bytes, or the
\* error thrown.  encodeCbor(t) above is the same map, entry by entry.
encodeCborBytes(value) ==
  IF ~assertNoUndefined(value) THEN [err |-> "EncodingError", bytes |-> <<>>]
  ELSE [err |-> "none", bytes |-> cborgEncode(value)]

\* cborg: the head at position pos: major type, additional information,
\* argument, and the position after the head
readHead(bytes, pos) ==
  LET major == bytes[pos] \div 32
      info == bytes[pos] % 32
  IN IF info < 24
       THEN [major |-> major, info |-> info, n |-> info, next |-> pos + 1]
     ELSE IF info = 24
       THEN [major |-> major, info |-> info, n |-> bytes[pos + 1],
             next |-> pos + 2]
     ELSE IF info = 25
       THEN [major |-> major, info |-> info,
             n |-> bytes[pos + 1] * 256 + bytes[pos + 2], next |-> pos + 3]
     ELSE IF info = 26
       THEN [major |-> major, info |-> info,
             n |-> bytes[pos + 1] * 16777216 + bytes[pos + 2] * 65536
                     + bytes[pos + 3] * 256 + bytes[pos + 4],
             next |-> pos + 5]
     ELSE [major |-> major, info |-> info, n |-> bytes[pos + 8],
           next |-> pos + 9]

\* cborgDecode: the data item at position pos and the position after it;
\* the items of an array and the entries of a map are read in turn
RECURSIVE decodeItem(_, _)
RECURSIVE decodeItems(_, _, _)
RECURSIVE decodeEntries(_, _, _)
decodeItem(bytes, pos) ==
  LET h == readHead(bytes, pos)
  IN CASE h.major = 0 -> [v |-> JsInt(h.n), next |-> h.next]
       [] h.major = 1 -> [v |-> JsInt((0 - 1) - h.n), next |-> h.next]
       [] h.major = 3 ->
            [v |-> JsStr(SubSeq(bytes, h.next, h.next + h.n - 1)),
             next |-> h.next + h.n]
       [] h.major = 4 ->
            LET r == decodeItems(bytes, h.next, h.n)
            IN [v |-> JsArr(r.vs), next |-> r.next]
       [] h.major = 5 ->
            LET r == decodeEntries(bytes, h.next, h.n)
            IN [v |-> JsObj(r.vs), next |-> r.next]
       [] h.major = 7 /\ h.info = 20 -> [v |-> JsBool(FALSE), next |-> h.next]
       [] h.major = 7 /\ h.info = 21 -> [v |-> JsBool(TRUE), next |-> h.next]
       [] h.major = 7 /\ h.info = 22 -> [v |-> JsNull, next |-> h.next]
       [] h.major = 7 /\ h.info = 23 -> [v |-> JsUndefined, next |-> h.next]
       [] h.major = 7 /\ h.info = 27 -> [v |-> JsFloat(h.n), next |-> h.next]

decodeItems(bytes, pos, k) ==
  IF k = 0 THEN [vs |-> <<>>, next |-> pos]
  ELSE LET first == decodeItem(bytes, pos)
           rest == decodeItems(bytes, first.next, k - 1)
       IN [vs |-> <<first.v>> \o rest.vs, next |-> rest.next]

decodeEntries(bytes, pos, k) ==
  IF k = 0 THEN [vs |-> <<>>, next |-> pos]
  ELSE LET key == decodeItem(bytes, pos)
           val == decodeItem(bytes, key.next)
           rest == decodeEntries(bytes, val.next, k - 1)
       IN [vs |-> << <<key.v.v, val.v>> >> \o rest.vs, next |-> rest.next]

\* decodeCbor(bytes)
decodeCbor(bytes) == decodeItem(bytes, 1).v

\* isDeterministicEncode(value): two encodings compared by length and byte by
\* byte; it throws what encodeCbor throws
isDeterministicEncode(value) ==
  LET a == encodeCborBytes(value)
      b == encodeCborBytes(value)
  IN IF a.err # "none" THEN a.err
     ELSE IF Len(a.bytes) # Len(b.bytes) THEN "false"
     ELSE IF \E i \in 1..Len(a.bytes) : a.bytes[i] # b.bytes[i] THEN "false"
     ELSE "true"

\* keys of plain objects: "a", "z" and "aa"
Keys == {<<97>>, <<122>>, <<97, 97>>}

\* values put inside arrays and objects
Atoms ==
  {JsNull, JsUndefined, JsBool(TRUE), JsInt(1), JsInt(300), JsStr(<<97>>)}

\* values encoded on their own: integers on both sides of every change of
\* width, the empty string, a string of 24 bytes, a fraction
RootAtoms ==
  {JsBool(FALSE), JsFloat(9), JsStr(<<>>), JsStr([i \in 1..24 |-> 97])}
  \cup {JsInt(n) : n \in {0, 23, 24, 255, 256, 65535, 65536, 2000000000}}
  \cup {JsInt(0 - n) : n \in {1, 24, 25, 256, 257, 65536, 65537}}

\* arrays of up to n elements of S
Arrays(S, n) == {JsArr(items) : items \in UNION {[1..k -> S] : k \in 0..n}}

\* objects of up to n properties with values of S, in every insertion order
Objects(S, n) ==
  {JsObj(entries) :
     entries \in {e \in UNION {[1..k -> Keys \X S] : k \in 0..n} :
                    \A i, j \in 1..Len(e) : e[i][1] = e[j][1] => i = j}}

\* a value of S nested once more: as the element of an array, as a property
\* of an object
Nest(S) ==
  {JsArr(<<x>>) : x \in S}
  \cup {JsObj(<< <<(<<122>>), x>>, <<(<<97, 97>>), JsInt(1)>> >>) : x \in S}

\* the fields of a ticket, as the schema declares them
TicketFields ==
  <<"schema", "deal_id", "action", "split_bps", "rationale_cid", "confidence",
    "nonce", "expires_at">>

\* the value of a ticket's field
fieldValue(t, name) ==
  CASE name = "schema" -> JsStr(utf8(t.schema))
    [] name = "deal_id" -> JsStr(utf8(t.deal_id))
    [] name = "action" -> JsStr(utf8(t.action))
    [] name = "split_bps" -> JsInt(t.split_bps)
    [] name = "rationale_cid" -> JsStr(utf8(t.rationale_cid))
    [] name = "confidence" -> JsFloat(t.confidence)
    [] name = "nonce" -> JsInt(t.nonce)
    [] name = "expires_at" -> JsInt(t.expires_at)

\* the ticket t as a plain object whose properties were set in the given order
ticketObject(t, order) ==
  JsObj([i \in 1..Len(order) |-> <<utf8(order[i]), fieldValue(t, order[i])>>])

\* the order of the schema and the order of the codec's round trip
TicketOrders ==
  {TicketFields,
   <<"schema", "deal_id", "action", "split_bps", "rationale_cid", "confidence",
     "expires_at", "nonce">>}

TicketObjects == {ticketObject(t, o) : t \in Tickets, o \in TicketOrders}

\* getTicketId(ticket) over the bytes: "ticket:v1:" and the digest of
\* encodeCbor(ticket)
getTicketIdBytes(obj) ==
  <<"ticket:v1:", sha256Hex(encodeCborBytes(obj).bytes)>>

\* variant: only the version prefix of the identity is compared
verifyTicketIdPrefix(obj, id) == getTicketIdBytes(obj)[1] = id[1]

\* verifyTicketId(ticket, id)
verifyTicketId(obj, id) == getTicketIdBytes(obj) = id

\* identities handed to verifyTicketId: those of the tickets, and another one
CandidateIds ==
  {getTicketIdBytes(ticketObject(t, TicketFields)) : t \in Tickets}
  \cup {<<"ticket:v1:", sha256Hex(<<>>)>>}

\* the values handed to encodeCbor
CborValues ==
  RootAtoms \cup Atoms
  \cup Arrays(Atoms, MaxItems) \cup Objects(Atoms, MaxItems)
  \cup Nest(Arrays(Atoms, MaxItems) \cup Objects(Atoms, MaxItems))
  \cup Nest(Nest(Arrays(Atoms, 1) \cup Objects(Atoms, 1)))
  \cup TicketObjects

\* the same value built with its properties set in another order, at every
\* depth: last to first, or the first property set last
RECURSIVE reorder(_, _)
reorder(value, how) ==
  IF how = "same" THEN value
  ELSE IF value.t = "array"
    THEN JsArr([i \in 1..Len(value.v) |-> reorder(value.v[i], how)])
  ELSE IF value.t = "object"
    THEN LET n == Len(value.v)
             from(i) == IF how = "reverse" THEN n + 1 - i ELSE (i % n) + 1
         IN JsObj([i \in 1..n |->
                    <<value.v[from(i)][1], reorder(value.v[from(i)][2], how)>>])
  ELSE value

Reorders == {"same", "reverse", "rotate"}

InitCborCall == cb \in [stage : {"call"}, value : CborValues]

\* encodeCbor(value) returns or throws; so it does for the same value built in
\* another order, and isDeterministicEncode(value) gives its answer
EncodeCall(how) ==
  /\ cb.stage = "call"
  /\ cb' = [stage |-> "encoded", value |-> cb.value,
            other |-> reorder(cb.value, how),
            out |-> encodeCborBytes(cb.value),
            outOther |-> encodeCborBytes(reorder(cb.value, how)),
            deterministic |-> isDeterministicEncode(cb.value)]
  /\ UNCHANGED <<guardVars, pc, loc, twin, q, sg, hx, nc, lateVars>>

\* decodeCbor(encodeCbor(value)) returns
DecodeCall ==
  /\ cb.stage = "encoded"
  /\ cb.out.err = "none"
  /\ cb' = [stage |-> "decoded", value |-> cb.value, other |-> cb.other,
            out |-> cb.out, outOther |-> cb.outOther,
            deterministic |-> cb.deterministic,
            back |-> decodeCbor(cb.out.bytes)]
  /\ UNCHANGED <<guardVars, pc, loc, twin, q, sg, hx, nc, lateVars>>

\* getTicketId of a ticket and of the same ticket built in another order, and
\* verifyTicketId(ticket, id) for some identity
Identify(id) ==
  /\ cb.stage = "encoded"
  /\ cb.value \in TicketObjects
  /\ cb' = [stage |-> "identified", value |-> cb.value, other |-> cb.other,
            out |-> cb.out, outOther |-> cb.outOther,
            deterministic |-> cb.deterministic,
            ticketId |-> getTicketIdBytes(cb.value),
            ticketIdOther |-> getTicketIdBytes(cb.other),
            id |-> id, matches |-> verifyTicketId(cb.value, id)]
  /\ UNCHANGED <<guardVars, pc, loc, twin, q, sg, hx, nc, lateVars>>

NextCbor ==
  \/ \E how \in Reorders : EncodeCall(how)
  \/ DecodeCall
  \/ \E id \in CandidateIds : Identify(id)

InitCbor ==
  /\ InitGuard /\ InitConc /\ InitTwin /\ InitQuorumIdle
  /\ InitCborCall
  /\ sg = [stage |-> "none"] /\ hx = [stage |-> "none"] /\ nc = [stage |-> "none"]
  /\ InitLateIdle

SpecCbor == InitCbor /\ [][NextCbor]_vars

----------------------------------------------------------------------------
(* Hex helpers: hexToBytes and bytesToHex *)

MaxHexLen == 4
MaxBytes == 2

UpperDigits == <<"0", "1", "2", "3", "4", "5", "6", "7",
                 "8", "9", "A", "B", "C", "D", "E", "F">>

\* /^[0-9a-fA-F]+$/ accepts the characters of HexDigits and UpperDigits
isHexChar(c) ==
  \E d \in 1..16 : c = HexDigits[d] \/ c = UpperDigits[d]

\* parseInt of one hex digit
hexDigitValue(c) ==
  (CHOOSE d \in 1..16 : c = HexDigits[d] \/ c = UpperDigits[d]) - 1

\* hex.startsWith("0x") || hex.startsWith("0X") ? hex.slice(2) : hex
stripHexPrefix(hex) ==
  IF Len(hex) >= 2 /\ hex[1] = "0" /\ hex[2] \in {"x", "X"}
  THEN SubSeq(hex, 3, Len(hex)) ELSE hex

\* variant: the empty string is not turned down and gives no bytes
hexToBytesLax(hex) ==
  LET clean == stripHexPrefix(hex)
  IN IF Len(clean) % 2 # 0
       THEN [err |-> "hex string must have an even length", bytes |-> <<>>]
     ELSE IF \E i \in 1..Len(clean) : ~isHexChar(clean[i])
       THEN [err |-> "hex string contains non-hex characters", bytes |-> <<>>]
     ELSE [err |-> "none",
           bytes |-> [i \in 1..(Len(clean) \div 2) |->
                        hexDigitValue(clean[2 * i - 1]) * 16
                          + hexDigitValue(clean[2 * i])]]

\* hexToBytes(hex): the bytes, or the error thrown; the string is a sequence
\* of characters
hexToBytes(hex) ==
  LET clean == stripHexPrefix(hex)
  IN IF Len(clean) = 0
       THEN [err |-> "hex string is empty", bytes |-> <<>>]
     ELSE IF Len(clean) % 2 # 0
       THEN [err |-> "hex string must have an even length", bytes |-> <<>>]
     ELSE IF \E i \in 1..Len(clean) : ~isHexChar(clean[i])
       THEN [err |-> "hex string contains non-hex characters", bytes |-> <<>>]
     ELSE [err |-> "none",
           bytes |-> [i \in 1..(Len(clean) \div 2) |->
                        hexDigitValue(clean[2 * i - 1]) * 16
                          + hexDigitValue(clean[2 * i])]]

\* variant: b.toString(16) without padStart, one digit for a byte under 16
bytesToHexNoPad(bytes, prefix, uppercase) ==
  LET digits == IF uppercase THEN UpperDigits ELSE HexDigits
      hex == flatten([i \in 1..Len(bytes) |->
                       IF bytes[i] < 16 THEN <<digits[bytes[i] + 1]>>
                       ELSE <<digits[(bytes[i] \div 16) + 1],
                              digits[(bytes[i] % 16) + 1]>>])
  IN IF prefix THEN <<"0", "x">> \o hex ELSE hex

\* bytesToHex(bytes, {prefix, uppercase}): two digits per byte, in uppercase
\* if asked, after "0x" if asked
bytesToHex(bytes, prefix, uppercase) ==
  LET digits == IF uppercase THEN UpperDigits ELSE HexDigits
      hex == flatten([i \in 1..Len(bytes) |->
                       <<digits[(bytes[i] \div 16) + 1],
                         digits[(bytes[i] % 16) + 1]>>])
  IN IF prefix THEN <<"0", "x">> \o hex ELSE hex

\* characters of the strings handed to hexToBytes: digits in both cases, the
\* letters of the prefix, a letter that is no digit
HexAlphabet == {"0", "9", "a", "f", "A", "F", "x", "X", "g"}

HexStrings == UNION {[1..n -> HexAlphabet] : n \in 0..MaxHexLen}

\* byte arrays handed to bytesToHex
ByteValues == {0, 9, 10, 15, 16, 171, 255}

ByteArrays == UNION {[1..n -> ByteValues] : n \in 0..MaxBytes}

InitHexCall ==
  \/ hx \in [stage : {"call"}, fn : {"hexToBytes"}, hex : HexStrings]
  \/ hx \in [stage : {"call"}, fn : {"bytesToHex"}, bytes : ByteArrays,
             prefix : BOOLEAN, uppercase : BOOLEAN]

\* hexToBytes(hex) returns or throws
HexToBytes ==
  /\ hx.stage = "call" /\ hx.fn = "hexToBytes"
  /\ hx' = [stage |-> "decoded", fn |-> hx.fn, hex |-> hx.hex,
            out |-> hexToBytes(hx.hex)]
  /\ UNCHANGED <<guardVars, pc, loc, twin, q, sg, cb, nc, lateVars>>

\* bytesToHex(bytes, opts) returns and hexToBytes of its result returns or
\* throws
BytesToHexAndBack ==
  /\ hx.stage = "call" /\ hx.fn = "bytesToHex"
  /\ hx' = [stage |-> "encoded", fn |-> hx.fn, bytes |-> hx.bytes,
            prefix |-> hx.prefix, uppercase |-> hx.uppercase,
            hex |-> bytesToHex(hx.bytes, hx.prefix, hx.uppercase),
            back |-> hexToBytes(bytesToHex(hx.bytes, hx.prefix, hx.uppercase))]
  /\ UNCHANGED <<guardVars, pc, loc, twin, q, sg, cb, nc, lateVars>>

NextHex == HexToBytes \/ BytesToHexAndBack

InitHex ==
  /\ InitGuard /\ InitConc /\ InitTwin /\ InitQuorumIdle
  /\ InitHexCall
  /\ sg = [stage |-> "none"] /\ cb = [stage |-> "none"] /\ nc = [stage |-> "none"]
  /\ InitLateIdle

SpecHex == InitHex /\ [][NextHex]_vars

----------------------------------------------------------------------------
(* Nonce sequence: validateNonceSequence along a chain of tickets *)

MAX_NONCE_GAP == 100
MaxChain == 3

\* variant: a nonce equal to the last one passes
validateNonceSequenceAllowEqual(ticket, lastNonce) ==
  IF ticket.nonce < lastNonce THEN [valid |-> FALSE, error |-> "Invalid nonce"]
  ELSE IF ticket.nonce - lastNonce > MAX_NONCE_GAP
       THEN [valid |-> FALSE, error |-> "Nonce gap too large"]
       ELSE [valid |-> TRUE, error |-> "none"]

\* validateNonceSequence(ticket, lastNonce)
validateNonceSequence(ticket, lastNonce) ==
  IF ticket.nonce <= lastNonce THEN [valid |-> FALSE, error |-> "Invalid nonce"]
  ELSE IF ticket.nonce - lastNonce > MAX_NONCE_GAP
       THEN [valid |-> FALSE, error |-> "Nonce gap too large"]
       ELSE [valid |-> TRUE, error |-> "none"]

\* a ticket with the given nonce
NonceTicket(n) == [QuorumTicket EXCEPT !.nonce = n]

\* how far the nonce of the next ticket is from the last accepted one
NonceSteps ==
  {0 - 1, 0, 1, 2, MAX_NONCE_GAP - 1, MAX_NONCE_GAP, MAX_NONCE_GAP + 1}

\* the nonce a verifier starts from
FirstNonces == {0, 7}

NoNonceCall == [nonce |-> 0, lastNonce |-> 0, valid |-> FALSE, made |-> FALSE]

InitNonceChain ==
  \E first \in FirstNonces :
    nc = [stage |-> "chain", first |-> first, lastNonce |-> first,
          accepted |-> <<>>, call |-> NoNonceCall]

\* a ticket arrives, is validated against the last accepted nonce, and, when
\* valid, becomes the last accepted one
ValidateNext(step) ==
  /\ nc.stage = "chain"
  /\ Len(nc.accepted) < MaxChain
  /\ nc.lastNonce + step >= 0
  /\ LET ticket == NonceTicket(nc.lastNonce + step)
         result == validateNonceSequence(ticket, nc.lastNonce)
     IN nc' = [stage |-> "chain", first |-> nc.first,
               lastNonce |-> IF result.valid THEN ticket.nonce ELSE nc.lastNonce,
               accepted |-> IF result.valid THEN Append(nc.accepted, ticket.nonce)
                            ELSE nc.accepted,
               call |-> [nonce |-> ticket.nonce, lastNonce |-> nc.lastNonce,
                         valid |-> result.valid, made |-> TRUE]]
  /\ UNCHANGED <<guardVars, pc, loc, twin, q, sg, cb, hx, lateVars>>

NextNonce == \E step \in NonceSteps : ValidateNext(step)

InitNonce ==
  /\ InitGuard /\ InitConc /\ InitTwin /\ InitQuorumIdle
  /\ InitNonceChain
  /\ sg = [stage |-> "none"] /\ cb = [stage |-> "none"] /\ hx = [stage |-> "none"]
  /\ InitLateIdle

SpecNonce == InitNonce /\ [][NextNonce]_vars

----------------------------------------------------------------------------
(* Helpers: calculateSplitAmounts in the arithmetic of JavaScript numbers *)

\* A JavaScript number is an IEEE 754 double: 53 significant bits.  Integers
\* too large for the checker's own are held as limbs of 13 bits, the least
\* significant first, zero being the empty sequence.
MANTISSA_BITS == 53
LIMB_BITS == 13
LIMB == 8192
BPS_DENOMINATOR == 10000

RECURSIVE trim(_)
trim(x) ==
  IF x # <<>> /\ x[Len(x)] = 0 THEN trim(SubSeq(x, 1, Len(x) - 1)) ELSE x

\* the limbs x with c added at the lowest one, carries taken along
RECURSIVE carryLimbs(_, _)
carryLimbs(x, c) ==
  IF x = <<>>
  THEN IF c = 0 THEN <<>> ELSE <<c % LIMB>> \o carryLimbs(<<>>, c \div LIMB)
  ELSE <<(Head(x) + c) % LIMB>>
         \o carryLimbs(Tail(x), (Head(x) + c) \div LIMB)

\* x * m and x + a, exactly, for small m and a
mulSmall(x, m) == trim(carryLimbs([i \in 1..Len(x) |-> x[i] * m], 0))
addSmall(x, a) == trim(carryLimbs(x, a))

\* quotient and remainder of the limbs 1..i of x, after a remainder from above
RECURSIVE divFrom(_, _, _, _)
divFrom(x, i, rem, d) ==
  IF i = 0 THEN [q |-> <<>>, r |-> rem]
  ELSE LET cur == rem * LIMB + x[i]
           rest == divFrom(x, i - 1, cur % d, d)
       IN [q |-> Append(rest.q, cur \div d), r |-> rest.r]

\* x div d and x mod d, exactly, for small d
divSmall(x, d) ==
  LET res == divFrom(x, Len(x), 0, d) IN [q |-> trim(res.q), r |-> res.r]

\* the number of bits of x
bitLen(x) ==
  IF x = <<>> THEN 0
  ELSE LIMB_BITS * (Len(x) - 1)
         + (CHOOSE k \in 1..LIMB_BITS :
              2 ^ (k - 1) <= x[Len(x)] /\ x[Len(x)] < 2 ^ k)

\* x < y
RECURSIVE lessFrom(_, _, _)
lessFrom(x, y, i) ==
  IF i = 0 THEN FALSE
  ELSE IF x[i] # y[i] THEN x[i] < y[i] ELSE lessFrom(x, y, i - 1)

numLess(x, y) ==
  IF Len(x) # Len(y) THEN Len(x) < Len(y) ELSE lessFrom(x, y, Len(x))

\* x - y for x >= y
RECURSIVE subFrom(_, _, _, _)
subFrom(x, y, i, borrow) ==
  IF i > Len(x) THEN <<>>
  ELSE LET yi == IF i <= Len(y) THEN y[i] ELSE 0
           v == x[i] - yi - borrow
       IN <<IF v < 0 THEN v + LIMB ELSE v>>
            \o subFrom(x, y, i + 1, IF v < 0 THEN 1 ELSE 0)

\* x - y as a sign and a size
numMinus(x, y) ==
  IF numLess(x, y) THEN [neg |-> TRUE, size |-> trim(subFrom(y, x, 1, 0))]
  ELSE [neg |-> FALSE, size |-> trim(subFrom(x, y, 1, 0))]

\* an integer written in decimal, four digits to the group, the first group
\* first
RECURSIVE fromDecimal(_)
fromDecimal(groups) ==
  IF groups = <<>> THEN <<>>
  ELSE addSmall(mulSmall(fromDecimal(SubSeq(groups, 1, Len(groups) - 1)),
                         BPS_DENOMINATOR),
                groups[Len(groups)])

\* the double nearest to the integer x, ties to the even one: what the
\* product of two doubles is when it needs more than 53 bits
roundToDouble(x) ==
  LET d == bitLen(x) - MANTISSA_BITS
  IN IF d <= 0 THEN x
     ELSE LET low == x[1] + LIMB * x[2]
              r == low % (2 ^ d)
              keptOdd == (low \div (2 ^ d)) % 2 = 1
              up == r > 2 ^ (d - 1) \/ (r = 2 ^ (d - 1) /\ keptOdd)
          IN trim(carryLimbs([x EXCEPT ![1] = 0, ![2] = 0],
                             (low - r) + (IF up THEN 2 ^ d ELSE 0)))

\* Math.floor(x / d) for the double x and the small d: the quotient is the
\* double nearest to x / d, which is the next integer when x / d lies within
\* half a unit in the last place of it
floorOfQuotient(x, d) ==
  LET res == divSmall(x, d)
      k == (MANTISSA_BITS + 1) - bitLen(res.q)
      odd == res.q # <<>> /\ res.q[1] % 2 = 1
      up == IF res.r = 0 THEN FALSE
            ELSE IF k <= 1 THEN 2 * res.r > d \/ (2 * res.r = d /\ odd)
            ELSE k <= LIMB_BITS + 1 /\ (d - res.r) * (2 ^ k) <= d
  IN IF up THEN addSmall(res.q, 1) ELSE res.q

NoAmounts == [neg |-> FALSE, size |-> <<>>]

\* calculateSplitAmounts(totalAmount, splitBps): the two amounts, or the error
\* thrown
calculateSplitAmounts(totalAmount, splitBps) ==
  IF splitBps < 0 \/ splitBps > BPS_DENOMINATOR
  THEN [err |-> "Invalid split_bps", sellerAmount |-> <<>>,
        buyerAmount |-> NoAmounts]
  ELSE LET sellerAmount ==
             floorOfQuotient(roundToDouble(mulSmall(totalAmount, splitBps)),
                             BPS_DENOMINATOR)
       IN [err |-> "none", sellerAmount |-> sellerAmount,
           buyerAmount |-> numMinus(totalAmount, sellerAmount)]

\* total amounts, in decimal: small ones, the one of the documentation, and
\* amounts of base units from 10^11 up to the largest safe integer
SplitTotals ==
  {fromDecimal(g) :
     g \in {<<0>>, <<1>>, <<3>>, <<9999>>, <<1, 1>>, <<100, 0>>,
            <<9008, 1001, 1>>, <<14, 4446, 4947, 2609>>,
            <<7378, 7899, 419, 393>>, <<9007, 1992, 5474, 991>>}}

SplitBps ==
  {0 - 1, 0, 1, 3333, 5000, 7500, BPS_DENOMINATOR - 1, BPS_DENOMINATOR,
   BPS_DENOMINATOR + 1}

InitSplitCall ==
  hp \in [stage : {"call"}, fn : {"calculateSplitAmounts"},
          totalAmount : SplitTotals, splitBps : SplitBps]

\* calculateSplitAmounts(totalAmount, splitBps) returns or throws
CalculateSplitAmounts ==
  /\ hp.stage = "call" /\ hp.fn = "calculateSplitAmounts"
  /\ hp' = [stage |-> "returned", fn |-> hp.fn,
            totalAmount |-> hp.totalAmount, splitBps |-> hp.splitBps,
            out |-> calculateSplitAmounts(hp.totalAmount, hp.splitBps)]
  /\ UNCHANGED <<guardVars, pc, loc, twin, q, sg, cb, hx, nc, mt, ev, pm>>

----------------------------------------------------------------------------
(* Helpers: isTicketTimingValid *)

MAX_LIFETIME_SECONDS == 86400
MIN_LIFETIME_SECONDS == 60

\* currentTime ?? Math.floor(Date.now() / 1000): the argument when it is
\* given, the clock otherwise
currentOrClock(currentTime, ms) ==
  IF currentTime.given THEN currentTime.value ELSE nowSeconds(ms)

\* variant: a lifetime of exactly the maximum is turned down
isTicketTimingValidBelowMax(ticket, now) ==
  IF ticket.expires_at <= now THEN [valid |-> FALSE, reason |-> "expired"]
  ELSE IF ticket.expires_at - now >= MAX_LIFETIME_SECONDS
    THEN [valid |-> FALSE, reason |-> "lifetime exceeds maximum"]
  ELSE IF ticket.expires_at - now < MIN_LIFETIME_SECONDS
    THEN [valid |-> FALSE, reason |-> "lifetime less than minimum"]
  ELSE [valid |-> TRUE, reason |-> "none"]

\* isTicketTimingValid(ticket, currentTime), now being currentTime or the clock
isTicketTimingValid(ticket, now) ==
  IF ticket.expires_at <= now THEN [valid |-> FALSE, reason |-> "expired"]
  ELSE IF ticket.expires_at - now > MAX_LIFETIME_SECONDS
    THEN [valid |-> FALSE, reason |-> "lifetime exceeds maximum"]
  ELSE IF ticket.expires_at - now < MIN_LIFETIME_SECONDS
    THEN [valid |-> FALSE, reason |-> "lifetime less than minimum"]
  ELSE [valid |-> TRUE, reason |-> "none"]

\* the second the helpers are called in, and what Date.now() may then return
HelperNow == 1000000
HelperClock == {HelperNow * MS_PER_SECOND, HelperNow * MS_PER_SECOND + 999}

\* currentTime: left out, or the second of the call
HelperCurrentTimes ==
  {[given |-> FALSE, value |-> 0], [given |-> TRUE, value |-> HelperNow]}

\* how long after the call the ticket expires
Lifetimes ==
  {0 - 1, 0, 1, MIN_LIFETIME_SECONDS - 1, MIN_LIFETIME_SECONDS,
   MIN_LIFETIME_SECONDS + 1, MAX_LIFETIME_SECONDS - 1, MAX_LIFETIME_SECONDS,
   MAX_LIFETIME_SECONDS + 1}

\* a ticket that expires at the given second
ExpiringTicket(e) == [QuorumTicket EXCEPT !.expires_at = e]

InitTimingCall ==
  hp \in [stage : {"call"}, fn : {"isTicketTimingValid"},
          ticket : {ExpiringTicket(HelperNow + d) : d \in Lifetimes},
          currentTime : HelperCurrentTimes]

\* isTicketTimingValid(ticket, currentTime) returns
IsTicketTimingValid(ms) ==
  /\ hp.stage = "call" /\ hp.fn = "isTicketTimingValid"
  /\ hp' = [stage |-> "returned", fn |-> hp.fn, ticket |-> hp.ticket,
            currentTime |-> hp.currentTime,
            now |-> currentOrClock(hp.currentTime, ms),
            out |-> isTicketTimingValid(hp.ticket,
                                        currentOrClock(hp.currentTime, ms))]
  /\ UNCHANGED <<guardVars, pc, loc, twin, q, sg, cb, hx, nc, mt, ev, pm>>

----------------------------------------------------------------------------
(* The ticket schema and validateSplitConsistency *)

MAX_SPLIT_BPS == 10000
MAX_SPLIT_BPS_FOR_SPLIT == 9999

ResolveAction == {"RELEASE", "REFUND", "SPLIT"}

\* the base object of ResolveTicketSchema: each field by its own rule
schemaFields(val) ==
  /\ val.schema = RESOLVE_TICKET_VERSION
  /\ Len(utf8(val.deal_id)) >= 1
  /\ val.action \in ResolveAction
  /\ val.split_bps >= 0 /\ val.split_bps <= MAX_SPLIT_BPS
  /\ Len(utf8(val.rationale_cid)) >= 3
  /\ val.confidence >= 0 /\ val.confidence <= 10
  /\ val.nonce >= 0
  /\ val.expires_at > 0

\* the superRefine of ResolveTicketSchema: action against split_bps
schemaRefinement(val) ==
  IF val.action = "SPLIT"
  THEN ~(val.split_bps <= 0 \/ val.split_bps >= MAX_SPLIT_BPS)
  ELSE ~(val.split_bps # 0)

\* ResolveTicketSchema.safeParse(val).success
ResolveTicketSchema(val) == schemaFields(val) /\ schemaRefinement(val)

\* The validation module uses the name MIN_SPLIT_BPS without importing it
\* and imports MIN_SPLIT_BPS_FOR_SPLIT, which the constants module does not
\* export.  A build that drops the unused import leaves a name that is not
\* defined where it is used; a build that keeps the import cannot load the
\* module at all.
ValidationBuilds == {"name not defined at use", "module not loaded"}

\* validateSplitConsistency(ticket) in the given build: "valid", the error
\* returned, or what is thrown
validateSplitConsistency(ticket, build) ==
  IF build = "module not loaded" THEN "SyntaxError"
  ELSE IF ticket.action = "SPLIT"
    THEN "ReferenceError"
  ELSE IF ticket.split_bps # 0 THEN "SPLIT_BPS_MUST_BE_ZERO"
  ELSE "valid"

SplitActions == ResolveAction

SplitValues ==
  {0 - 1, 0, 1, 5000, MAX_SPLIT_BPS_FOR_SPLIT, MAX_SPLIT_BPS, MAX_SPLIT_BPS + 1}

\* a ticket with the given action and split
SplitTicket(a, b) == [QuorumTicket EXCEPT !.action = a, !.split_bps = b]

InitConsistencyCall ==
  hp \in [stage : {"call"}, fn : {"validateSplitConsistency"},
          ticket : {SplitTicket(a, b) : a \in SplitActions, b \in SplitValues},
          build : ValidationBuilds]

\* the schema parses the value and validateSplitConsistency is called on it
ValidateSplitConsistency ==
  /\ hp.stage = "call" /\ hp.fn = "validateSplitConsistency"
  /\ hp' = [stage |-> "returned", fn |-> hp.fn, ticket |-> hp.ticket,
            build |-> hp.build, parsed |-> ResolveTicketSchema(hp.ticket),
            out |-> validateSplitConsistency(hp.ticket, hp.build)]
  /\ UNCHANGED <<guardVars, pc, loc, twin, q, sg, cb, hx, nc, mt, ev, pm>>

----------------------------------------------------------------------------
(* Expiry: isTicketExpired and validateTicketIntegrity *)

MIN_CID_LENGTH == 46
MAX_CID_LENGTH == 100
MIN_DEAL_ID_LENGTH == 1
MAX_DEAL_ID_LENGTH == 128
\* RECOMMENDED_MIN_CONFIDENCE, 0.7, in tenths
RECOMMENDED_MIN_CONFIDENCE == 7

\* isTicketExpired(ticket, currentTime) of the helpers, now being currentTime
\* or the clock
isTicketExpired(ticket, now) == now > ticket.expires_at

\* the characters of /^[1-9A-HJ-NP-Za-km-z]{46}$/ and of /^b[a-z2-7]+$/
Base58Codes ==
  (49..57) \cup (65..72) \cup (74..78) \cup (80..90) \cup (97..107)
  \cup (109..122)
Base32Codes == (97..122) \cup (50..55)

\* validateCIDFormat(cid), the string as its bytes
validateCIDFormat(cid) ==
  IF Len(cid) = 0 THEN FALSE
  ELSE IF Len(cid) < MIN_CID_LENGTH \/ Len(cid) > MAX_CID_LENGTH THEN FALSE
  ELSE IF SubSeq(cid, 1, 2) = <<81, 109>>
    THEN Len(cid) = 46 /\ \A i \in 1..Len(cid) : cid[i] \in Base58Codes
  ELSE IF cid[1] = 98
    THEN \A i \in 2..Len(cid) : cid[i] \in Base32Codes
  ELSE FALSE

\* validateTicketIntegrity(ticket, {currentTime}) in the given build: what is
\* thrown, or the errors and warnings returned
validateTicketIntegrity(ticket, currentTime, build) ==
  LET split == validateSplitConsistency(ticket, build)
      errors ==
        (IF split # "valid" THEN {split} ELSE {})
        \cup (IF ticket.expires_at <= currentTime THEN {"TICKET_EXPIRED"}
              ELSE {})
        \cup (IF ~validateCIDFormat(utf8(ticket.rationale_cid))
              THEN {"INVALID_CID_FORMAT"} ELSE {})
        \cup (IF Len(utf8(ticket.deal_id)) < MIN_DEAL_ID_LENGTH
                 \/ Len(utf8(ticket.deal_id)) > MAX_DEAL_ID_LENGTH
              THEN {"Deal ID length"} ELSE {})
      warnings ==
        IF ticket.confidence < RECOMMENDED_MIN_CONFIDENCE
        THEN {"LOW_CONFIDENCE"} ELSE {}
  IN IF split \in {"SyntaxError", "ReferenceError"}
     THEN [thrown |-> split, valid |-> FALSE, errors |-> {}, warnings |-> {}]
     ELSE [thrown |-> "none", valid |-> errors = {}, errors |-> errors,
           warnings |-> warnings]

\* tickets expiring just before, at and just after the second of the call
ExpiryTickets ==
  {[QuorumTicket EXCEPT !.expires_at = HelperNow + d, !.action = a[1],
                        !.split_bps = a[2], !.rationale_cid = c,
                        !.confidence = f] :
     d \in {0 - 1, 0, 1}, a \in {<<"RELEASE", 0>>, <<"SPLIT", 5000>>},
     c \in {"bafy", "baaaaaaaaaaaaaaaaaaaaaaaaaaaaaaaaaaaaaaaaaaaaa"},
     f \in {5, 9}}

InitExpiryCall ==
  hp \in [stage : {"call"}, fn : {"expiry"}, ticket : ExpiryTickets,
          build : ValidationBuilds]

\* at one reading of the clock: a fresh ReplayGuard is offered the ticket,
\* isTicketExpired and validateTicketIntegrity are called with that second
ExpiryChecks(ms) ==
  /\ hp.stage = "call" /\ hp.fn = "expiry"
  /\ hp' = [stage |-> "returned", fn |-> hp.fn, ticket |-> hp.ticket,
            build |-> hp.build, now |-> nowSeconds(ms),
            accepted |-> accept(EmptyTable, hp.ticket, nowSeconds(ms)).ret,
            expired |-> isTicketExpired(hp.ticket, nowSeconds(ms)),
            integrity |-> validateTicketIntegrity(hp.ticket, nowSeconds(ms),
                                                  hp.build)]
  /\ UNCHANGED <<guardVars, pc, loc, twin, q, sg, cb, hx, nc, mt, ev, pm>>

InitHelpersCall ==
  InitSplitCall \/ InitTimingCall \/ InitConsistencyCall \/ InitExpiryCall

NextHelpers ==
  \/ CalculateSplitAmounts
  \/ \E ms \in HelperClock : IsTicketTimingValid(ms)
  \/ ValidateSplitConsistency
  \/ \E ms \in HelperClock : ExpiryChecks(ms)

InitHelpers ==
  /\ InitGuard /\ InitConc /\ InitTwin /\ InitQuorumIdle
  /\ sg = [stage |-> "none"] /\ cb = [stage |-> "none"]
  /\ hx = [stage |-> "none"] /\ nc = [stage |-> "none"]
  /\ InitHelpersCall
  /\ mt = [stage |-> "none"] /\ ev = [stage |-> "none"]
  /\ pm = [stage |-> "none"]

SpecHelpers == InitHelpers /\ [][NextHelpers]_vars

----------------------------------------------------------------------------
(* Multi-signature tickets *)

\* calls of addParticipantSignature on one MultiSigTicket
MaxAdds == 2

ParticipantRoles == {"BUYER", "SELLER", "MODERATOR", "ORACLE"}

\* A key or signature argument: a Uint8Array, or a string of hex digits
AsBytes(bytes) == [t |-> "bytes", v |-> bytes]
AsHex(chars) == [t |-> "hex", v |-> chars]

\* toBytes(input, name): the bytes of a Uint8Array, hexToBytes of a string
toBytes(input) ==
  IF input.t = "hex" THEN hexToBytes(input.v)
  ELSE [err |-> "none", bytes |-> input.v]

\* verify(bytes, sig.signature, sig.pubkey) with a public key in either form
verifyKey(message, sig, pubkey) ==
  LET pk == toBytes(pubkey)
  IN IF sig.length # SIGNATURE_LENGTH THEN "InvalidSignatureLength"
     ELSE IF pk.err # "none" THEN pk.err
     ELSE verify(message, sig, pk.bytes)

\* keyEquals(a, b): two strings by their characters, two byte arrays by their
\* bytes, a string and a byte array never
keyEquals(a, b) ==
  IF a.t = "hex" /\ b.t = "hex" THEN a.v = b.v
  ELSE IF a.t = "bytes" /\ b.t = "bytes"
       THEN /\ Len(a.v) = Len(b.v)
            /\ \A i \in 1..Len(a.v) : a.v[i] = b.v[i]
  ELSE FALSE

createMultiSigTicket(ticket) == [ticket |-> ticket, signatures |-> <<>>]

\* addParticipantSignature(multi, sig): the new MultiSigTicket, or the error
\* thrown
addParticipantSignature(multi, sig) ==
  LET ok == verifyKey(encodeCbor(multi.ticket), sig.signature, sig.pubkey)
      nextSignatures ==
        SelectSeq(multi.signatures,
                  LAMBDA s : ~(s.role = sig.role /\ keyEquals(s.pubkey, sig.pubkey)))
  IN IF ok \notin {"true", "false"} THEN [thrown |-> ok, multi |-> multi]
     ELSE IF ok = "false"
       THEN [thrown |-> "invalid_signature_for_ticket", multi |-> multi]
     ELSE [thrown |-> "none",
           multi |-> [ticket |-> multi.ticket,
                      signatures |-> Append(nextSignatures, sig)]]

\* variant: one required role with an entry is enough
isThresholdMetAnyRole(multi, requiredRoles) ==
  \E n \in 1..Len(requiredRoles) :
     \E i \in 1..Len(multi.signatures) :
        multi.signatures[i].role = requiredRoles[n]

\* requiredRoles.every(role => multi.signatures.some(s => s.role === role))
isThresholdMet(multi, requiredRoles) ==
  \A n \in 1..Len(requiredRoles) :
     \E i \in 1..Len(multi.signatures) :
        multi.signatures[i].role = requiredRoles[n]

\* the signers: one key whose hex form has a letter, one whose form has none
BuyerKey == PubKey(10)
SellerKey == PubKey(2)

\* the forms a caller may give the first key in: bytes, lowercase hex,
\* uppercase hex
ParticipantKeys ==
  {AsBytes(BuyerKey), AsHex(bytesToHex(BuyerKey, FALSE, FALSE)),
   AsHex(bytesToHex(BuyerKey, FALSE, TRUE)), AsBytes(SellerKey),
   AsBytes(ShortKey)}

\* signatures a caller may hand in: two of the first signer and one of the
\* second over the ticket, one over another ticket, one byte short
ParticipantSigs(ticket, other) ==
  {Signature(BuyerKey, encodeCbor(ticket), 0, SIGNATURE_LENGTH),
   Signature(BuyerKey, encodeCbor(ticket), 1, SIGNATURE_LENGTH),
   Signature(SellerKey, encodeCbor(ticket), 0, SIGNATURE_LENGTH),
   Signature(BuyerKey, encodeCbor(other), 0, SIGNATURE_LENGTH),
   Signature(BuyerKey, encodeCbor(ticket), 0, SIGNATURE_LENGTH - 1)}

SigRoles == {"BUYER", "SELLER"}

RequiredRoleLists ==
  {<<>>, <<"BUYER">>, <<"SELLER">>, <<"BUYER", "SELLER">>,
   <<"BUYER", "BUYER">>, <<"SELLER", "MODERATOR">>, <<"ORACLE">>}

\* const multi = createMultiSigTicket(ticket)
InitMultiSigTicket ==
  mt = [stage |-> "created", multi |-> createMultiSigTicket(QuorumTicket),
        adds |-> 0]

\* multi = addParticipantSignature(multi, sig), the caller keeping the old
\* wrapper when the call throws
AddParticipantSignature(role, pubkey, signature) ==
  /\ mt.stage # "none"
  /\ mt.adds < MaxAdds
  /\ LET sig == [role |-> role, pubkey |-> pubkey, signature |-> signature]
         r == addParticipantSignature(mt.multi, sig)
     IN mt' = [stage |-> "added", multi |-> r.multi, adds |-> mt.adds + 1,
               before |-> mt.multi, sig |-> sig, thrown |-> r.thrown]
  /\ UNCHANGED <<guardVars, pc, loc, twin, q, sg, cb, hx, nc, hp, ev, pm>>

\* isThresholdMet(multi, requiredRoles)
IsThresholdMet(requiredRoles) ==
  /\ mt.stage \in {"created", "added"}
  /\ mt' = [stage |-> "asked", multi |-> mt.multi, adds |-> mt.adds,
            requiredRoles |-> requiredRoles,
            met |-> isThresholdMet(mt.multi, requiredRoles)]
  /\ UNCHANGED <<guardVars, pc, loc, twin, q, sg, cb, hx, nc, hp, ev, pm>>

NextMultiSig ==
  \/ \E role \in SigRoles, pubkey \in ParticipantKeys,
        signature \in ParticipantSigs(QuorumTicket, OtherTicket) :
       AddParticipantSignature(role, pubkey, signature)
  \/ \E requiredRoles \in RequiredRoleLists : IsThresholdMet(requiredRoles)

InitMultiSig ==
  /\ InitGuard /\ InitConc /\ InitTwin /\ InitQuorumIdle
  /\ sg = [stage |-> "none"] /\ cb = [stage |-> "none"]
  /\ hx = [stage |-> "none"] /\ nc = [stage |-> "none"]
  /\ hp = [stage |-> "none"] /\ InitMultiSigTicket
  /\ ev = [stage |-> "none"] /\ pm = [stage |-> "none"]

SpecMultiSig == InitMultiSig /\ [][NextMultiSig]_vars

----------------------------------------------------------------------------
(* decodeAndVerifyTicket and the ticket envelope *)

\* cborg: the position after the data item that starts at pos, or 0 when the
\* bytes end before the item does or the item is none the decoder knows
RECURSIVE itemEnd(_, _)
RECURSIVE itemsEnd(_, _, _)
itemEnd(bytes, pos) ==
  IF pos > Len(bytes) THEN 0
  ELSE LET info == bytes[pos] % 32
           major == bytes[pos] \div 32
           argBytes == CASE info < 24 -> 0
                         [] info = 24 -> 1
                         [] info = 25 -> 2
                         [] info = 26 -> 4
                         [] info = 27 -> 8
                         [] OTHER -> 0
       IN IF info > 27 \/ pos + argBytes > Len(bytes) THEN 0
          ELSE LET h == readHead(bytes, pos)
               IN CASE major \in {0, 1} -> h.next
                    [] major \in {2, 3} ->
                         IF h.next + h.n - 1 > Len(bytes) THEN 0
                         ELSE h.next + h.n
                    [] major = 4 -> itemsEnd(bytes, h.next, h.n)
                    [] major = 5 -> itemsEnd(bytes, h.next, 2 * h.n)
                    [] major = 6 -> 0
                    [] major = 7 ->
                         IF info \in {20, 21, 22, 23, 27} THEN h.next ELSE 0

itemsEnd(bytes, pos, k) ==
  IF k = 0 THEN pos
  ELSE LET e == itemEnd(bytes, pos)
       IN IF e = 0 THEN 0 ELSE itemsEnd(bytes, e, k - 1)

\* try { raw = decodeCbor(bytes) } catch: the decoder throws when the bytes
\* hold no whole item, or hold more than one
tryDecodeCbor(bytes) ==
  IF itemEnd(bytes, 1) # Len(bytes) + 1 THEN [err |-> "invalid_cbor", v |-> JsNull]
  ELSE [err |-> "none", v |-> decodeCbor(bytes)]

\* the strings of tickets, to read a decoded string back
TicketStrings ==
  {RESOLVE_TICKET_VERSION, "D-1", "D-2", "RELEASE", "REFUND", "SPLIT", "BURN",
   "bafy", "ab", ""}

\* the JavaScript string of the decoded bytes
fromUtf8(bytes) ==
  IF \E s \in TicketStrings : utf8(s) = bytes
  THEN CHOOSE s \in TicketStrings : utf8(s) = bytes
  ELSE "(other)"

\* raw[name]: the value of the property, undefined when there is none
property(raw, name) ==
  IF \E i \in 1..Len(raw.v) : raw.v[i][1] = utf8(name)
  THEN raw.v[CHOOSE i \in 1..Len(raw.v) : raw.v[i][1] = utf8(name)][2]
  ELSE JsUndefined

\* the object of the schema: an object whose eight properties have the types
\* and the values asked for; confidence is held in tenths
parseShape(raw) ==
  IF raw.t # "object" THEN [ok |-> FALSE, ticket |-> Ticket("", 0)]
  ELSE IF \/ \E name \in {"schema", "deal_id", "action", "rationale_cid"} :
                property(raw, name).t # "string"
          \/ \E name \in {"split_bps", "nonce", "expires_at"} :
                property(raw, name).t # "integer"
          \/ property(raw, "confidence").t \notin {"integer", "float"}
       THEN [ok |-> FALSE, ticket |-> Ticket("", 0)]
  ELSE LET val == [schema |-> fromUtf8(property(raw, "schema").v),
                   deal_id |-> fromUtf8(property(raw, "deal_id").v),
                   action |-> fromUtf8(property(raw, "action").v),
                   split_bps |-> property(raw, "split_bps").v,
                   rationale_cid |-> fromUtf8(property(raw, "rationale_cid").v),
                   confidence |-> IF property(raw, "confidence").t = "integer"
                                  THEN 10 * property(raw, "confidence").v
                                  ELSE property(raw, "confidence").v,
                   nonce |-> property(raw, "nonce").v,
                   expires_at |-> property(raw, "expires_at").v]
       IN [ok |-> schemaFields(val), ticket |-> val]

\* try { ticket = schema.parse(raw) } catch: the object of the schema, then
\* its refinement on action and split_bps
schemaParse(raw) ==
  LET p == parseShape(raw)
  IN IF p.ok /\ ResolveTicketSchema(p.ticket) THEN p
     ELSE [ok |-> FALSE, ticket |-> p.ticket]

\* an option that is left out: a number, a string
NotGiven == [given |-> FALSE, value |-> 0]
NoString == [given |-> FALSE, value |-> "undefined"]
Given(x) == [given |-> TRUE, value |-> x]

\* opts.expectedDealId && ticket.deal_id !== opts.expectedDealId: the empty
\* string is falsy
dealIdMismatch(expectedDealId, ticket) ==
  /\ expectedDealId.given /\ expectedDealId.value # ""
  /\ ticket.deal_id # expectedDealId.value

\* opts.expectedAction && ticket.action !== opts.expectedAction
actionMismatch(expectedAction, ticket) ==
  /\ expectedAction.given
  /\ ticket.action # expectedAction.value

\* opts.maxSkewSeconds ?? 0
maxSkewOf(opts) == IF opts.maxSkewSeconds.given THEN opts.maxSkewSeconds.value ELSE 0

\* variant: a ticket is expired in its last second
expiredWithSkewAtBoundary(ticket, maxSkew, now) == ticket.expires_at + maxSkew <= now

\* ticket.expires_at + maxSkew < nowSeconds
expiredWithSkew(ticket, maxSkew, now) == ticket.expires_at + maxSkew < now

\* the signers' secrets
SignerSeeds == {Seed(1), Seed(2)}

\* the bytes of a ticket as encodeCbor gives them
canonicalBytes(t) == encodeCborBytes(ticketObject(t, TicketFields)).bytes

\* tickets put into envelopes: expiring two seconds ago, one second ago and in
\* this second, and a ticket of another deal and action
EnvelopeTickets ==
  {ExpiringTicket(HelperNow - 2), ExpiringTicket(HelperNow - 1),
   ExpiringTicket(HelperNow),
   [QuorumTicket EXCEPT !.deal_id = "D-2", !.action = "REFUND",
                        !.expires_at = HelperNow]}

\* bytes a receiver may be handed: tickets, a ticket the schema turns down,
\* a number, a ticket cut short, one with a byte too many, and no bytes
ReceivedBytes ==
  {canonicalBytes(t) : t \in EnvelopeTickets}
  \cup {canonicalBytes(SplitTicket("SPLIT", 0)),
        encodeCborBytes(JsInt(5)).bytes,
        SubSeq(canonicalBytes(QuorumTicket), 1, Len(canonicalBytes(QuorumTicket)) - 1),
        canonicalBytes(QuorumTicket) \o <<0>>,
        <<>>}

\* every signature the signers have made
SignedPool ==
  {ed25519Sign(b, seed) : b \in ReceivedBytes, seed \in SignerSeeds}

\* a digest of the message inside the signature's bytes: its bytes weighted
\* by their place, summed half by half
RECURSIVE weightedSum(_, _, _)
weightedSum(msg, lo, hi) ==
  IF lo > hi THEN 0
  ELSE IF lo = hi THEN msg[lo] * lo
  ELSE weightedSum(msg, lo, (lo + hi) \div 2)
         + weightedSum(msg, ((lo + hi) \div 2) + 1, hi)

checksum(msg) == weightedSum(msg, 1, Len(msg)) % 65536

\* the bytes of a signature: they tell the signer, the message and the
\* signature's own randomness
signatureBytes(sig) ==
  [i \in 1..sig.length |->
     CASE i = 1 -> IF Len(sig.signer) = 0 THEN 0 ELSE sig.signer[Len(sig.signer)]
       [] i = 2 -> Len(sig.msg) % 256
       [] i = 3 -> checksum(sig.msg) \div 256
       [] i = 4 -> checksum(sig.msg) % 256
       [] i = 5 -> sig.r
       [] OTHER -> 7]

\* the signature these bytes are: one that a signer made, or bytes nobody
\* signed
signatureOf(bytes) ==
  IF \E s \in SignedPool : signatureBytes(s) = bytes
  THEN CHOOSE s \in SignedPool : signatureBytes(s) = bytes
  ELSE Signature(<<>>, <<>>, 0, Len(bytes))

\* verify(bytes, signature, pubkey) on a signature's bytes
verifyBytes(message, signature, pubkey) ==
  verify(message, signatureOf(signature), pubkey)

\* encodeAndSignTicket(ticket, secretKey): the ticket, its bytes and the
\* signature's bytes
encodeAndSignTicket(ticket, secretKey) ==
  LET bytes == canonicalBytes(ticket)
      signature == sign(bytes, secretKey)
  IN [ticket |-> ticket, bytes |-> bytes,
      signature |-> signatureBytes(signature.sig)]

ENVELOPE_SCHEMA == "escrow.v1.ResolveTicketEnvelope"

\* bytesToHex of the transport module: two lowercase digits per byte
envelopeBytesToHex(bytes) ==
  [i \in 1..(2 * Len(bytes)) |->
     IF i % 2 = 1 THEN HexDigits[(bytes[(i + 1) \div 2] \div 16) + 1]
     ELSE HexDigits[(bytes[(i + 1) \div 2] % 16) + 1]]

\* parseInt(byte, 16) of two characters: the digits up to the first character
\* that is none; NaN (here -1) when there is no digit, or nothing but a 0x
parseIntPair(c1, c2) ==
  IF c1 = "0" /\ c2 \in {"x", "X"} THEN 0 - 1
  ELSE IF ~isHexChar(c1) THEN 0 - 1
  ELSE IF ~isHexChar(c2) THEN hexDigitValue(c1)
  ELSE hexDigitValue(c1) * 16 + hexDigitValue(c2)

\* hexToBytes of the transport module: a lowercase 0x is taken off, an odd
\* length throws, and each pair is stored as parseInt reads it, NaN as 0
envelopeHexToBytes(hex) ==
  LET clean == IF Len(hex) >= 2 /\ hex[1] = "0" /\ hex[2] = "x"
               THEN SubSeq(hex, 3, Len(hex)) ELSE hex
  IN IF Len(clean) % 2 # 0
       THEN [err |-> "hex string must have an even length", bytes |-> <<>>]
     ELSE [err |-> "none",
           bytes |-> [i \in 1..(Len(clean) \div 2) |->
                        LET n == parseIntPair(clean[2 * i - 1], clean[2 * i])
                        IN IF n < 0 THEN 0 ELSE n]]

\* toEnvelope(signed, pubkeyHex)
toEnvelope(signed, pubkeyHex) ==
  [schema |-> ENVELOPE_SCHEMA,
   ticket_cbor_hex |-> envelopeBytesToHex(signed.bytes),
   signature_hex |-> envelopeBytesToHex(signed.signature),
   pubkey_hex |-> pubkeyHex]

\* toHex(bytes): lowercase, no prefix
toHex(bytes) == bytesToHex(bytes, FALSE, FALSE)

\* what may happen to a hex string on its way
Manglings ==
  {"as is", "0x", "uppercase", "empty", "odd", "letter", "letters"}

\* the first pair of digits that starts with 0, or 0 if there is none
firstSmallPair(hex) ==
  LET small == {i \in 1..(Len(hex) \div 2) : hex[2 * i - 1] = "0"}
  IN IF small = {} THEN 0 ELSE CHOOSE i \in small : \A j \in small : i <= j

upper(c) ==
  IF \E d \in 1..16 : c = HexDigits[d]
  THEN UpperDigits[CHOOSE d \in 1..16 : c = HexDigits[d]] ELSE c

\* the hex string as it arrives: prefixed, in uppercase, empty, a character
\* short, with a pair 0d written dg, or with its first pair written gg
mangle(hex, how) ==
  CASE how = "as is" -> hex
    [] how = "0x" -> <<"0", "x">> \o hex
    [] how = "uppercase" -> [i \in 1..Len(hex) |-> upper(hex[i])]
    [] how = "empty" -> <<>>
    [] how = "odd" -> SubSeq(hex, 1, Len(hex) - 1)
    [] how = "letter" ->
         LET k == firstSmallPair(hex)
         IN IF k = 0 THEN hex
            ELSE [i \in 1..Len(hex) |->
                    IF i = 2 * k - 1 THEN hex[2 * k]
                    ELSE IF i = 2 * k THEN "g" ELSE hex[i]]
    [] how = "letters" -> <<"g", "g">> \o SubSeq(hex, 3, Len(hex))

\* the options of decodeAndVerifyTicket: each given or left out
DecodeVerifyOptions ==
  [expectedDealId : {NoString, Given(""), Given("D-2")},
   expectedAction : {NoString, Given("REFUND")},
   nowSeconds : {NotGiven, Given(HelperNow)},
   maxSkewSeconds : {NotGiven, Given(1)}]

\* the options of a receiver that states the time only
EnvelopeOptions ==
  [expectedDealId : {NoString}, expectedAction : {NoString},
   nowSeconds : {Given(HelperNow - 2), Given(HelperNow)},
   maxSkewSeconds : {NotGiven}]

\* the signature handed in with the bytes: the signer's over these bytes,
\* the signer's over other bytes, or one byte short
signatureFor(bytes, how) ==
  LET exact == signatureBytes(ed25519Sign(bytes, Seed(1)))
      others == IF bytes = <<>> THEN canonicalBytes(ExpiringTicket(HelperNow))
                ELSE <<>>
  IN CASE how = "exact" -> exact
       [] how = "other message" -> signatureBytes(ed25519Sign(others, Seed(1)))
       [] how = "short" -> SubSeq(exact, 1, SIGNATURE_LENGTH - 1)

NoEnvelope ==
  [schema |-> "", ticket_cbor_hex |-> <<>>, signature_hex |-> <<>>,
   pubkey_hex |-> <<>>]

NoOrigin == [ticket |-> Ticket("", 0), field |-> "none", how |-> "none"]

\* a call of decodeAndVerifyTicket about to start
decodeCall(fn, bytes, signature, pubkey, opts, clock, env, origin) ==
  [stage |-> "call", fn |-> fn, bytes |-> bytes, signature |-> signature,
   pubkey |-> pubkey, opts |-> opts, clock |-> clock, env |-> env,
   origin |-> origin, done |-> <<>>, raw |-> JsNull, ticket |-> Ticket("", 0),
   ok |-> FALSE, reason |-> "none", thrown |-> "none"]

\* an envelope made by toEnvelope(encodeAndSignTicket(t, secret), hex of the
\* secret's public key), one of its hex fields mangled on the way
sentEnvelope(t, secret, tag, field, how) ==
  LET e == toEnvelope(encodeAndSignTicket(t, secret),
                      toHex(derivePublicKey(secret).key))
  IN [schema |-> tag,
      ticket_cbor_hex |-> IF field = "ticket_cbor_hex"
                          THEN mangle(e.ticket_cbor_hex, how) ELSE e.ticket_cbor_hex,
      signature_hex |-> IF field = "signature_hex"
                        THEN mangle(e.signature_hex, how) ELSE e.signature_hex,
      pubkey_hex |-> IF field = "pubkey_hex"
                     THEN mangle(e.pubkey_hex, how) ELSE e.pubkey_hex]

EnvelopeTags == {ENVELOPE_SCHEMA, "escrow.v2.ResolveTicketEnvelope"}

HexFields == {"ticket_cbor_hex", "signature_hex", "pubkey_hex"}

\* decodeAndVerifyTicket(bytes, signature, pubkey, opts) is called
InitDecodeCall ==
  \E bytes \in ReceivedBytes, how \in {"exact", "other message", "short"},
     pubkey \in {PubKey(1), PubKey(2), ShortKey},
     opts \in DecodeVerifyOptions, clock \in HelperClock :
    /\ opts.nowSeconds.given => clock = HelperNow * MS_PER_SECOND
    /\ ev = decodeCall("decodeAndVerifyTicket", bytes, signatureFor(bytes, how),
                       pubkey, opts, clock, NoEnvelope, NoOrigin)

\* fromEnvelope(env, opts) is called
InitEnvelopeCall ==
  \E t \in EnvelopeTickets, tag \in EnvelopeTags, field \in HexFields,
     how \in Manglings, opts \in EnvelopeOptions :
    ev = [decodeCall("fromEnvelope", <<>>, <<>>, <<>>, opts,
                     HelperNow * MS_PER_SECOND,
                     sentEnvelope(t, Seed(1), tag, field, how),
                     [ticket |-> t, field |-> field, how |-> how])
            EXCEPT !.stage = "envelope"]

\* fromEnvelope: the schema tag, the three hex fields, then the call of
\* decodeAndVerifyTicket
FromEnvelope ==
  /\ ev.stage = "envelope"
  /\ LET bytes == envelopeHexToBytes(ev.env.ticket_cbor_hex)
         sigBytes == envelopeHexToBytes(ev.env.signature_hex)
         pubkeyBytes == envelopeHexToBytes(ev.env.pubkey_hex)
     IN ev' =
          IF ev.env.schema # ENVELOPE_SCHEMA
            THEN [ev EXCEPT !.stage = "returned",
                            !.reason = "invalid_envelope_schema"]
          ELSE IF bytes.err # "none"
            THEN [ev EXCEPT !.stage = "thrown", !.thrown = bytes.err,
                            !.done = <<"hexToBytes">>]
          ELSE IF sigBytes.err # "none"
            THEN [ev EXCEPT !.stage = "thrown", !.thrown = sigBytes.err,
                            !.done = <<"hexToBytes", "hexToBytes">>]
          ELSE IF pubkeyBytes.err # "none"
            THEN [ev EXCEPT !.stage = "thrown", !.thrown = pubkeyBytes.err,
                            !.done = <<"hexToBytes", "hexToBytes", "hexToBytes">>]
          ELSE [ev EXCEPT !.stage = "call", !.bytes = bytes.bytes,
                          !.signature = sigBytes.bytes,
                          !.pubkey = pubkeyBytes.bytes,
                          !.done = <<"hexToBytes", "hexToBytes", "hexToBytes">>]
  /\ UNCHANGED <<guardVars, pc, loc, twin, q, sg, cb, hx, nc, hp, mt, pm>>

\* 1) Crypto: signature
VerifySignature ==
  /\ ev.stage = "call"
  /\ LET sigOk == verifyBytes(ev.bytes, ev.signature, ev.pubkey)
         tried == [ev EXCEPT !.done = Append(@, "verify")]
     IN ev' = IF sigOk = "true" THEN [tried EXCEPT !.stage = "verified"]
              ELSE IF sigOk = "false"
                THEN [tried EXCEPT !.stage = "returned",
                                   !.reason = "invalid_signature"]
              ELSE [tried EXCEPT !.stage = "thrown", !.thrown = sigOk]
  /\ UNCHANGED <<guardVars, pc, loc, twin, q, sg, cb, hx, nc, hp, mt, pm>>

\* 2) Decode CBOR
DecodeBytes ==
  /\ ev.stage = "verified"
  /\ LET raw == tryDecodeCbor(ev.bytes)
         tried == [ev EXCEPT !.done = Append(@, "decodeCbor")]
     IN ev' = IF raw.err # "none"
                THEN [tried EXCEPT !.stage = "returned", !.reason = raw.err]
              ELSE [tried EXCEPT !.stage = "decoded", !.raw = raw.v]
  /\ UNCHANGED <<guardVars, pc, loc, twin, q, sg, cb, hx, nc, hp, mt, pm>>

\* 3) Validate against schema
ParseSchema ==
  /\ ev.stage = "decoded"
  /\ LET parsed == schemaParse(ev.raw)
         tried == [ev EXCEPT !.done = Append(@, "schema.parse")]
     IN ev' = IF ~parsed.ok
                THEN [tried EXCEPT !.stage = "returned",
                                   !.reason = "schema_validation_failed"]
              ELSE [tried EXCEPT !.stage = "parsed", !.ticket = parsed.ticket]
  /\ UNCHANGED <<guardVars, pc, loc, twin, q, sg, cb, hx, nc, hp, mt, pm>>

\* 4) Optional semantic checks, and the result
SemanticChecks ==
  /\ ev.stage = "parsed"
  /\ LET now == currentOrClock(ev.opts.nowSeconds, ev.clock)
         back(reason) == [ev EXCEPT !.stage = "returned", !.reason = reason]
     IN ev' = IF dealIdMismatch(ev.opts.expectedDealId, ev.ticket)
                THEN back("mismatched_deal_id")
              ELSE IF actionMismatch(ev.opts.expectedAction, ev.ticket)
                THEN back("mismatched_action")
              ELSE IF expiredWithSkew(ev.ticket, maxSkewOf(ev.opts), now)
                THEN back("ticket_expired")
              ELSE [ev EXCEPT !.stage = "returned", !.ok = TRUE]
  /\ UNCHANGED <<guardVars, pc, loc, twin, q, sg, cb, hx, nc, hp, mt, pm>>

NextEnvelope ==
  \/ FromEnvelope
  \/ VerifySignature
  \/ DecodeBytes
  \/ ParseSchema
  \/ SemanticChecks

InitEnvelope ==
  /\ InitGuard /\ InitConc /\ InitTwin /\ InitQuorumIdle
  /\ sg = [stage |-> "none"] /\ cb = [stage |-> "none"]
  /\ hx = [stage |-> "none"] /\ nc = [stage |-> "none"]
  /\ hp = [stage |-> "none"] /\ mt = [stage |-> "none"]
  /\ (InitDecodeCall \/ InitEnvelopeCall)
  /\ pm = [stage |-> "none"]

SpecEnvelope == InitEnvelope /\ [][NextEnvelope]_vars

----------------------------------------------------------------------------
(* verifyQuorum on a reordered list *)

\* pairs in a list that is handed over in two orders
MaxReordered == 2

ReorderedLists == UNION {[1..n -> SigPool] : n \in 0..MaxReordered}

ReorderedAuthLists ==
  { <<PubKey(1), PubKey(2)>>, <<PubKey(1), PubKey(2), PubKey(3)>>,
    <<PubKey(2), ShortKey>> }

ReorderedThresholds == {0, 1, 2}

\* the orders a list of n pairs can be put in
Orders(n) == {p \in [1..n -> 1..n] : \A i, j \in 1..n : p[i] = p[j] => i = j}

\* the same pairs in the order p
reordered(signatures, p) == [i \in 1..Len(signatures) |-> signatures[p[i]]]

InitReordered ==
  pm \in [stage : {"call"}, signatures : ReorderedLists,
          authorizedPubKeys : ReorderedAuthLists,
          threshold : ReorderedThresholds]

\* verifyQuorum is called with the list as it is and with the list reordered
VerifyReordered(p) ==
  /\ pm.stage = "call"
  /\ pm' = [stage |-> "returned", signatures |-> pm.signatures,
            authorizedPubKeys |-> pm.authorizedPubKeys,
            threshold |-> pm.threshold, order |-> p,
            out |-> verifyQuorum(QuorumTicket, pm.signatures,
                                 pm.authorizedPubKeys, pm.threshold).result,
            outReordered |->
              verifyQuorum(QuorumTicket, reordered(pm.signatures, p),
                           pm.authorizedPubKeys, pm.threshold).result]
  /\ UNCHANGED <<guardVars, pc, loc, twin, q, sg, cb, hx, nc, hp, mt, ev>>

NextPerm == \E p \in Orders(Len(pm.signatures)) : VerifyReordered(p)

InitPerm ==
  /\ InitGuard /\ InitConc /\ InitTwin /\ InitQuorumIdle
  /\ sg = [stage |-> "none"] /\ cb = [stage |-> "none"]
  /\ hx = [stage |-> "none"] /\ nc = [stage |-> "none"]
  /\ hp = [stage |-> "none"] /\ mt = [stage |-> "none"]
  /\ ev = [stage |-> "none"]
  /\ InitReordered

SpecPerm == InitPerm /\ [][NextPerm]_vars

----------------------------------------------------------------------------
(* Specifications *)

Init == InitGuard /\ InitConc /\ InitTwin /\ InitQuorumIdle /\ InitPureIdle

Next == AcceptCall

Spec == Init /\ [][Next]_vars

NextConc ==
  \/ \E p \in Callers, t \in ConcTickets : Invoke(p, t)
  \/ \E p \in Callers, ms \in ConcClockValues : ReadClock(p, ms)
  \/ \E p \in Callers : CheckExpiry(p)
  \/ \E p \in Callers : CheckSeen(p)
  \/ \E p \in Callers : Insert(p)
  \/ \E p \in Callers : PruneAndReturn(p)
  \/ \E p \in Callers : Return(p)

SpecConc == Init /\ [][NextConc]_vars

SpecTwin == Init /\ [][NextTwin]_vars

NextQuorum == VerifyQuorum

InitQuorumCall ==
  InitGuard /\ InitConc /\ InitTwin /\ InitQuorum /\ InitPureIdle

SpecQuorum == InitQuorumCall /\ [][NextQuorum]_vars

----------------------------------------------------------------------------
(* Replay guard: claims *)

lastId == getTicketId(last.ticket)

C3_AcceptDecision ==
  last.called =>
    /\ last.ret <=> (last.ticket.expires_at >= last.now
                     /\ lastId \notin DOMAIN last.pre)
    /\ last.ret => (lastId \in DOMAIN seen
                    /\ seen[lastId] = last.ticket.expires_at)

\* a ticket offered in the very second it expires is accepted
C3_Witness ==
  last.called /\ last.ret /\ last.ticket.expires_at = last.now

\* C4: an accept that returns false, for an expired ticket or for a replay,
\* leaves the table as it was: nothing added, removed or overwritten.
C4_RejectKeepsTable == (last.called /\ ~last.ret) => seen = last.pre

\* an expired ticket is turned down by a guard that already holds entries
C4_Witness ==
  /\ last.called /\ ~last.ret
  /\ last.ticket.expires_at < last.now
  /\ lastId \notin DOMAIN last.pre
  /\ DOMAIN last.pre # {}

C6_ClockInjected ==
  \A g, h \in Guards :
    (/\ twin[g].called /\ twin[h].called
     /\ twin[g].pre = twin[h].pre
     /\ twin[g].ticket = twin[h].ticket
     /\ twin[g].nowArg = twin[h].nowArg)
    => (twin[g].ret = twin[h].ret /\ twin[g].post = twin[h].post)

----------------------------------------------------------------------------
(* Stepwise accept: claims *)

sameIdentity(p, o) == getTicketId(loc[p].ticket) = getTicketId(loc[o].ticket)

----------------------------------------------------------------------------
(* Quorum verifier: claims *)

returned == q.stage = "returned"

pairIndexes == 1..Len(q.signatures)

\* every submitted signature has 64 bytes, every submitted and every
\* allowlisted key 32
wellFormed ==
  /\ \A i \in pairIndexes :
       /\ q.signatures[i].sig.length = SIGNATURE_LENGTH
       /\ Len(q.signatures[i].pubKey) = KEY_LENGTH
  /\ \A n \in 1..Len(q.authorizedPubKeys) :
       Len(q.authorizedPubKeys[n]) = KEY_LENGTH

onAllowlist(k) ==
  \E n \in 1..Len(q.authorizedPubKeys) : q.authorizedPubKeys[n] = k

\* the distinct allowlisted keys submitted with at least one signature that
\* verifies over the ticket's canonical bytes
validSigners ==
  {k \in {q.signatures[i].pubKey : i \in pairIndexes} :
     /\ onAllowlist(k)
     /\ \E i \in pairIndexes :
          /\ q.signatures[i].pubKey = k
          /\ ed25519Verify(q.signatures[i].sig, encodeCbor(q.ticket), k)}

\* C7: for well-formed inputs verifyQuorum returns true exactly when the number
\* of distinct allowlisted public keys that come with at least one verifying
\* signature is at least the threshold (and false otherwise).
C7_QuorumCount ==
  (returned /\ wellFormed) =>
    /\ q.out.result \in {"true", "false"}
    /\ q.out.result = "true" <=> Cardinality(validSigners) >= q.threshold

\* threshold 2 is met by two signers among three pairs, the third pair being
\* a signature that does not verify or a key off the allowlist
C7_Witness ==
  /\ returned /\ wellFormed
  /\ q.threshold = 2 /\ Len(q.signatures) = 3
  /\ Cardinality(validSigners) = 2
  /\ \E i \in pairIndexes : q.signatures[i].pubKey \notin validSigners
  /\ q.out.result = "true"

\* C8: within one call a public key adds at most 1 to the valid count however
\* many valid signatures come under it; with threshold 2, pairs that all carry
\* one signer's key never yield true.
C8_NoDoubleCount ==
  returned =>
    /\ q.out.validCount = Len(q.out.counted)
    /\ \A i, j \in 1..Len(q.out.counted) :
         i # j => q.out.counted[i] # q.out.counted[j]
    /\ (q.threshold = 2
        /\ \A i, j \in pairIndexes :
             q.signatures[i].pubKey = q.signatures[j].pubKey)
       => q.out.result # "true"

\* two different valid signatures of one allowlisted signer, threshold 2:
\* counted once, result false
C8_Witness ==
  /\ returned /\ q.threshold = 2 /\ Len(q.signatures) = 2
  /\ q.signatures[1].pubKey = q.signatures[2].pubKey
  /\ q.signatures[1].sig # q.signatures[2].sig
  /\ \A i \in pairIndexes :
       ed25519Verify(q.signatures[i].sig, encodeCbor(q.ticket),
                     q.signatures[i].pubKey)
  /\ onAllowlist(q.signatures[1].pubKey)
  /\ q.out.validCount = 1 /\ q.out.result = "false"

\* C9: a pair whose public key is byte-equal to no allowlist entry never adds
\* to the valid count, even when its signature verifies over the ticket, and
\* it is never handed to signature verification.
C9_UnauthorizedSkipped ==
  returned =>
    /\ \A i \in 1..Len(q.out.counted) : onAllowlist(q.out.counted[i])
    /\ \A i \in 1..Len(q.out.verified) : onAllowlist(q.out.verified[i].pubKey)

\* the only pair is a verifying signature under a key off a non-empty
\* allowlist: nothing verified, nothing counted, threshold 1 not met
C9_Witness ==
  /\ returned /\ q.threshold = 1 /\ Len(q.signatures) = 1
  /\ Len(q.authorizedPubKeys) > 0
  /\ ~onAllowlist(q.signatures[1].pubKey)
  /\ ed25519Verify(q.signatures[1].sig, encodeCbor(q.ticket),
                   q.signatures[1].pubKey)
  /\ q.out.verified = <<>> /\ q.out.validCount = 0
  /\ q.out.result = "false"

\* C10: with threshold 0 and no signatures verifyQuorum returns true, whatever
\* the ticket and the allowlist.
C10_ThresholdZero ==
  (returned /\ q.threshold = 0 /\ q.signatures = <<>>) => q.out.result = "true"

\* threshold 0, no signatures, a non-empty allowlist: true
C10_Witness ==
  /\ returned /\ q.threshold = 0 /\ q.signatures = <<>>
  /\ Len(q.authorizedPubKeys) > 0
  /\ q.out.result = "true"

----------------------------------------------------------------------------
(* Signature engine: claims *)

verified == sg.stage = "verified"

\* C11: verify never answers true or false for malformed input: a signature
\* that is not 64 bytes long fails with the signature-length error, a public
\* key that is not 32 bytes long (under a 64 byte signature, whose length is
\* looked at first) with the key-length error.
C11_LengthGuards ==
  verified =>
    /\ sg.vsig.length # SIGNATURE_LENGTH
         => sg.verdict = "InvalidSignatureLength"
    /\ (sg.vsig.length = SIGNATURE_LENGTH /\ Len(sg.vkey) # KEY_LENGTH)
         => sg.verdict = "InvalidKeyLength"
    /\ (sg.vsig.length = SIGNATURE_LENGTH /\ Len(sg.vkey) = KEY_LENGTH)
         => sg.verdict \in {"true", "false"}

\* a signature cut to 63 bytes, over the signed message and under the
\* signer's key: the signature-length error, not false
C11_Witness ==
  /\ verified
  /\ sg.vsig.length = SIGNATURE_LENGTH - 1
  /\ sg.vmessage = sg.message /\ sg.vkey = sg.derived.key
  /\ sg.verdict = "InvalidSignatureLength"

\* C12: with p = derivePublicKey(s), verify(m, sign(m, s), p) is true;
\* verify(m', sign(m, s), p) is false for every other message m';
\* verify(m, sign(m, s), p') is false for every other signer's key p'.
C12_Soundness ==
  (verified /\ sg.vsig.length = SIGNATURE_LENGTH /\ Len(sg.vkey) = KEY_LENGTH) =>
    /\ (sg.vmessage = sg.message /\ sg.vkey = sg.derived.key)
         => sg.verdict = "true"
    /\ (sg.vmessage # sg.message /\ sg.vkey = sg.derived.key)
         => sg.verdict = "false"
    /\ (sg.vmessage = sg.message /\ sg.vkey # sg.derived.key)
         => sg.verdict = "false"

\* a signature made with a 64 byte secret verifies over the signed message
\* under the key derived from that secret
C12_Witness ==
  /\ verified
  /\ Len(sg.secret) = EXPANDED_SECRET_LENGTH
  /\ sg.vsig = sg.signed.sig
  /\ sg.vmessage = sg.message /\ sg.vkey = sg.derived.key
  /\ sg.verdict = "true"

\* C13: sign and derivePublicKey accept a secret of exactly 32 or exactly 64
\* bytes and fail with the key-length error for every other length; a 64 byte
\* secret gives the signature and the public key of its first 32 bytes.
C13_SecretLengths ==
  sg.stage = "signed" =>
    /\ Len(sg.secret) \in {SEED_LENGTH, EXPANDED_SECRET_LENGTH}
         => (sg.signed.err = "none" /\ sg.derived.err = "none")
    /\ Len(sg.secret) \notin {SEED_LENGTH, EXPANDED_SECRET_LENGTH}
         => (sg.signed.err = "InvalidKeyLength"
             /\ sg.derived.err = "InvalidKeyLength")
    /\ Len(sg.secret) = EXPANDED_SECRET_LENGTH
         => (/\ sg.signed = sign(sg.message, SubSeq(sg.secret, 1, SEED_LENGTH))
             /\ sg.derived = derivePublicKey(SubSeq(sg.secret, 1, SEED_LENGTH)))

\* a 64 byte secret whose two halves differ has been signed with
C13_Witness ==
  /\ sg.stage = "signed"
  /\ Len(sg.secret) = EXPANDED_SECRET_LENGTH
  /\ SubSeq(sg.secret, 1, SEED_LENGTH)
       # SubSeq(sg.secret, SEED_LENGTH + 1, EXPANDED_SECRET_LENGTH)
  /\ sg.signed.err = "none"
  /\ sg.derived.key = PubKey(1)

----------------------------------------------------------------------------
(* Canonical CBOR and ticket identity: claims *)

\* two JS values are equal: same kind, same payload, arrays element by
\* element, objects property by property whatever the order of the properties
RECURSIVE jsEqual(_, _)
jsEqual(a, b) ==
  /\ a.t = b.t
  /\ IF a.t = "array"
       THEN /\ Len(a.v) = Len(b.v)
            /\ \A i \in 1..Len(a.v) : jsEqual(a.v[i], b.v[i])
     ELSE IF a.t = "object"
       THEN /\ Len(a.v) = Len(b.v)
            /\ \A i \in 1..Len(a.v) : \E j \in 1..Len(b.v) :
                 a.v[i][1] = b.v[j][1] /\ jsEqual(a.v[i][2], b.v[j][2])
     ELSE a.v = b.v

\* the value is undefined, or an array or object with such a value in it
RECURSIVE containsUndefined(_)
containsUndefined(value) ==
  \/ value.t = "undefined"
  \/ value.t = "array"
       /\ \E i \in 1..Len(value.v) : containsUndefined(value.v[i])
  \/ value.t = "object"
       /\ \E i \in 1..Len(value.v) : containsUndefined(value.v[i][2])

\* C14: for every value v that encodeCbor accepts, decodeCbor(encodeCbor(v))
\* equals v.
C14_RoundTrip ==
  cb.stage = "decoded" => jsEqual(cb.back, cb.value)

\* an object in an array in an array, its property an integer written in
\* three bytes, has come back
C14_Witness ==
  /\ cb.stage = "decoded"
  /\ cb.value = JsArr(<<JsArr(<<JsObj(<< <<(<<122>>), JsInt(300)>> >>)>>)>>)
  /\ cb.out.bytes = <<129, 129, 161, 97, 122, 25, 1, 44>>
  /\ jsEqual(cb.back, cb.value)

\* C15: two values that differ only in the order their objects' properties
\* were set in, at any depth, encode to the same bytes (or both fail), and
\* isDeterministicEncode(v) is true for every value encodeCbor accepts.
C15_Deterministic ==
  cb.stage = "encoded" =>
    /\ jsEqual(cb.value, cb.other) => cb.out = cb.outOther
    /\ cb.out.err = "none" => cb.deterministic = "true"

\* an object with two properties inside an array, built in the two orders
C15_Witness ==
  /\ cb.stage = "encoded"
  /\ cb.value.t = "array" /\ Len(cb.value.v) = 1
  /\ cb.value.v[1].t = "object" /\ Len(cb.value.v[1].v) = 2
  /\ cb.other # cb.value /\ jsEqual(cb.value, cb.other)
  /\ cb.out.err = "none" /\ cb.out = cb.outOther
  /\ cb.deterministic = "true"

\* C16: encodeCbor fails with an encoding error and gives no bytes exactly
\* when the value is undefined or has undefined in it at any depth; null in
\* the same places is accepted.
C16_AbsenceRejected ==
  cb.stage = "encoded" =>
    /\ containsUndefined(cb.value)
         => (cb.out.err = "EncodingError" /\ cb.out.bytes = <<>>)
    /\ ~containsUndefined(cb.value)
         => (cb.out.err = "none" /\ cb.out.bytes # <<>>)

\* undefined two levels down has been refused
C16_Witness ==
  /\ cb.stage = "encoded"
  /\ cb.value = JsArr(<<JsArr(<<JsObj(<< <<(<<97>>), JsUndefined>> >>)>>)>>)
  /\ cb.out.err = "EncodingError"

\* C17: getTicketId(t) is "ticket:v1:" and the digest of encodeCbor(t); the
\* same ticket with its fields in another order has the same identity, another
\* ticket another one; verifyTicketId(t, id) is true exactly when id is
\* getTicketId(t); and the bytes carry the fields in the order encodeCbor(t)
\* lists them.
C17_ContentIdentity ==
  cb.stage = "identified" =>
    /\ cb.ticketId = <<"ticket:v1:", sha256Hex(cb.out.bytes)>>
    /\ cb.ticketIdOther = cb.ticketId
    /\ cb.matches <=> (cb.id = cb.ticketId)
    /\ \A t, u \in Tickets : \A o \in TicketOrders :
         cb.value = ticketObject(t, o) =>
           /\ (cb.ticketId = getTicketIdBytes(ticketObject(u, o))) <=>
                (getTicketId(u) = getTicketId(t))
           /\ LET m == decodeCbor(cb.out.bytes).v
              IN /\ Len(m) = Len(encodeCbor(t))
                 /\ \A i \in 1..Len(m) : m[i][1] = utf8(encodeCbor(t)[i][1])

\* a ticket built last field first has the identity of the ticket built in
\* the schema's order, which is the identity asked about
C17_Witness ==
  /\ cb.stage = "identified"
  /\ cb.other # cb.value
  /\ cb.ticketIdOther = cb.ticketId
  /\ cb.id = cb.ticketId /\ cb.matches

----------------------------------------------------------------------------
(* Hex helpers: claims *)

\* the string without its 0x or 0X, if it starts with one
withoutPrefix(s) ==
  IF Len(s) >= 2 /\ SubSeq(s, 1, 2) \in {<<"0", "x">>, <<"0", "X">>}
  THEN SubSeq(s, 3, Len(s)) ELSE s

HexCharacters ==
  {"0", "1", "2", "3", "4", "5", "6", "7", "8", "9",
   "a", "b", "c", "d", "e", "f", "A", "B", "C", "D", "E", "F"}

\* what hexToBytes is to turn down
malformedHex(s) ==
  \/ withoutPrefix(s) = <<>>
  \/ Len(s) % 2 # 0
  \/ \E i \in 1..Len(withoutPrefix(s)) : withoutPrefix(s)[i] \notin HexCharacters

\* C18: hexToBytes fails, returning no bytes, exactly when the string, its
\* optional 0x or 0X taken off, has a non-hex character, is of odd length or is
\* empty; for every other string it returns half as many bytes as that string
\* has characters.
C18_HexInput ==
  (hx.stage = "decoded") =>
    /\ malformedHex(hx.hex) => (hx.out.err # "none" /\ hx.out.bytes = <<>>)
    /\ ~malformedHex(hx.hex)
         => (/\ hx.out.err = "none"
             /\ 2 * Len(hx.out.bytes) = Len(withoutPrefix(hx.hex)))

\* "0XaF" has given the one byte 175
C18_Witness ==
  /\ hx.stage = "decoded"
  /\ hx.hex = <<"0", "X", "a", "F">>
  /\ hx.out = [err |-> "none", bytes |-> <<175>>]

\* what bytesToHex is to give without the uppercase option: two lowercase
\* digits per byte, after 0x exactly if the prefix option is set
lowercaseHexOf(s, bytes, prefix) ==
  /\ Len(withoutPrefix(s)) = 2 * Len(bytes)
  /\ \A i \in 1..Len(withoutPrefix(s)) :
       withoutPrefix(s)[i] \in {HexDigits[d] : d \in 1..16}
  /\ prefix => (Len(s) = 2 * Len(bytes) + 2 /\ SubSeq(s, 1, 2) = <<"0", "x">>)
  /\ ~prefix => s = withoutPrefix(s)

\* C19 as it is worded: for every byte array b, hexToBytes(bytesToHex(b))
\* and hexToBytes(bytesToHex(b, {prefix: true})) equal b, and bytesToHex gives
\* lowercase hex of length 2*|b|, with 0x before it only if asked.
C19_HexRoundTrip ==
  (hx.stage = "encoded" /\ ~hx.uppercase) =>
    /\ hx.back = [err |-> "none", bytes |-> hx.bytes]
    /\ lowercaseHexOf(hx.hex, hx.bytes, hx.prefix)

\* C19, amended: the round trip holds for every byte array that is not empty;
\* what bytesToHex gives is as worded for every byte array.
C19_HexRoundTripNonEmpty ==
  (hx.stage = "encoded" /\ ~hx.uppercase) =>
    /\ hx.bytes # <<>> => hx.back = [err |-> "none", bytes |-> hx.bytes]
    /\ lowercaseHexOf(hx.hex, hx.bytes, hx.prefix)

\* the bytes 9 and 171 have gone to "0x09ab" and come back
C19_Witness ==
  /\ hx.stage = "encoded"
  /\ hx.bytes = <<9, 171>> /\ hx.prefix /\ ~hx.uppercase
  /\ hx.hex = <<"0", "x", "0", "9", "a", "b">>
  /\ hx.back = [err |-> "none", bytes |-> <<9, 171>>]

----------------------------------------------------------------------------
(* Nonce sequence: claims *)

\* C20: validateNonceSequence(ticket, lastNonce) is valid exactly when
\* lastNonce < ticket.nonce <= lastNonce + 100; so the nonces accepted along a
\* chain, each validated against the one accepted before it, increase
\* strictly, none is accepted twice, and neighbours are at most 100 apart.
C20_NonceSequence ==
  nc.stage = "chain" =>
    /\ nc.call.made =>
         (nc.call.valid <=>
            (nc.call.lastNonce < nc.call.nonce
             /\ nc.call.nonce <= nc.call.lastNonce + 100))
    /\ \A i \in 1..Len(nc.accepted) :
         LET before == IF i = 1 THEN nc.first ELSE nc.accepted[i - 1]
         IN before < nc.accepted[i] /\ nc.accepted[i] - before <= 100
    /\ \A i, j \in 1..Len(nc.accepted) :
         nc.accepted[i] = nc.accepted[j] => i = j

\* after a step of 100 and a step of 1 were accepted, a step of 101 was not
C20_Witness ==
  /\ nc.stage = "chain"
  /\ nc.accepted = <<100, 101>>
  /\ nc.call.made /\ ~nc.call.valid
  /\ nc.call.nonce = 202 /\ nc.call.lastNonce = 101

----------------------------------------------------------------------------
(* Helpers: claims *)

\* C21: for 0 <= bps <= 10000 and an integer total >= 0,
\* calculateSplitAmounts(total, bps) returns sellerAmount =
\* floor(total * bps / 10000) and buyerAmount = total - sellerAmount, the two
\* summing to total and neither negative; for bps < 0 or bps > 10000 it
\* throws and returns no amounts.
C21_SplitAmounts ==
  (hp.stage = "returned" /\ hp.fn = "calculateSplitAmounts") =>
    IF hp.splitBps < 0 \/ hp.splitBps > 10000
    THEN hp.out.err # "none" /\ hp.out.sellerAmount = <<>>
         /\ hp.out.buyerAmount = NoAmounts
    ELSE /\ hp.out.err = "none"
         /\ hp.out.sellerAmount
              = divSmall(mulSmall(hp.totalAmount, hp.splitBps), 10000).q
         /\ ~hp.out.buyerAmount.neg
         /\ ~numLess(hp.totalAmount, hp.out.sellerAmount)
         /\ hp.out.buyerAmount.size
              = trim(subFrom(hp.totalAmount, hp.out.sellerAmount, 1, 0))

\* C22: isTicketTimingValid(ticket, now) is valid exactly when
\* 60 <= ticket.expires_at - now <= 86400; a ticket with expires_at <= now is
\* reported as expired, not as too short-lived.
C22_TimingWindow ==
  (hp.stage = "returned" /\ hp.fn = "isTicketTimingValid") =>
    /\ hp.out.valid <=>
         (60 <= hp.ticket.expires_at - hp.now
          /\ hp.ticket.expires_at - hp.now <= 86400)
    /\ hp.ticket.expires_at <= hp.now => hp.out.reason = "expired"
    /\ hp.ticket.expires_at > hp.now => hp.out.reason # "expired"

\* a ticket with exactly 86400 seconds to live has been found valid
C22_Witness ==
  /\ hp.stage = "returned" /\ hp.fn = "isTicketTimingValid"
  /\ hp.ticket.expires_at - hp.now = 86400
  /\ hp.out.valid

\* C23: the schema accepts a ticket only if split_bps is in 1..9999 when the
\* action is SPLIT and 0 when it is RELEASE or REFUND, and
\* validateSplitConsistency returns valid for exactly those pairs.
C23_SplitConsistency ==
  (hp.stage = "returned" /\ hp.fn = "validateSplitConsistency") =>
    LET consistent ==
          \/ hp.ticket.action = "SPLIT"
               /\ 1 <= hp.ticket.split_bps /\ hp.ticket.split_bps <= 9999
          \/ hp.ticket.action \in {"RELEASE", "REFUND"}
               /\ hp.ticket.split_bps = 0
    IN /\ hp.parsed => consistent
       /\ (hp.out = "valid") <=> consistent

\* C30: for every ticket and every time now, in particular now = expires_at,
\* ReplayGuard.accept rejects the ticket as expired exactly when
\* isTicketExpired(ticket, now) is true, and exactly when
\* validateTicketIntegrity with currentTime = now reports the ticket-expired
\* error.
C30_ExpiryAgreement ==
  (hp.stage = "returned" /\ hp.fn = "expiry") =>
    /\ ~hp.accepted <=> hp.expired
    /\ ~hp.accepted <=> ("TICKET_EXPIRED" \in hp.integrity.errors)

\* the public key a stored entry names, whatever form it was given in
keyOf(entry) == toBytes(entry.pubkey).bytes

\* C24: in a MultiSigTicket built by createMultiSigTicket and
\* addParticipantSignature calls, every stored signature verifies over the
\* ticket's canonical bytes under its stored public key, no two entries share
\* role and public key, and a call with an invalid signature throws and
\* leaves no new MultiSigTicket.
C24_MultiSigInvariant ==
  mt.stage # "none" =>
    LET sigs == mt.multi.signatures
    IN /\ \A i \in 1..Len(sigs) :
            verifyKey(encodeCbor(mt.multi.ticket), sigs[i].signature,
                      sigs[i].pubkey) = "true"
       /\ \A i, j \in 1..Len(sigs) :
            (sigs[i].role = sigs[j].role /\ keyOf(sigs[i]) = keyOf(sigs[j]))
              => i = j
       /\ (mt.stage = "added"
             /\ verifyKey(encodeCbor(mt.before.ticket), mt.sig.signature,
                          mt.sig.pubkey) # "true")
            => (mt.thrown # "none" /\ mt.multi = mt.before)

\* C26: for a MultiSigTicket built through createMultiSigTicket and
\* addParticipantSignature, isThresholdMet is true exactly when every
\* required role has a stored entry, every entry of a required role carries
\* a signature that verifies over the ticket, and an empty list of required
\* roles is met.
C26_ThresholdMet ==
  mt.stage = "asked" =>
    LET sigs == mt.multi.signatures
        entries(role) == {i \in 1..Len(sigs) : sigs[i].role = role}
        roles == {mt.requiredRoles[n] : n \in 1..Len(mt.requiredRoles)}
    IN /\ mt.met <=> \A role \in roles : entries(role) # {}
       /\ \A role \in roles : \A i \in entries(role) :
            verifyKey(encodeCbor(mt.multi.ticket), sigs[i].signature,
                      sigs[i].pubkey) = "true"
       /\ mt.requiredRoles = <<>> => mt.met

\* buyer and seller were required and both have signed
C26_Witness ==
  /\ mt.stage = "asked"
  /\ mt.requiredRoles = <<"BUYER", "SELLER">>
  /\ mt.met
  /\ Len(mt.multi.signatures) = 2

----------------------------------------------------------------------------
(* decodeAndVerifyTicket and the envelope: claims *)

\* what the five checks of decodeAndVerifyTicket say about the call's
\* arguments, each on its own: the first that fails, or "none"
firstFailure ==
  LET raw == tryDecodeCbor(ev.bytes)
      parsed == schemaParse(raw.v)
      opts == ev.opts
      now == currentOrClock(opts.nowSeconds, ev.clock)
      skew == IF opts.maxSkewSeconds.given THEN opts.maxSkewSeconds.value ELSE 0
  IN IF verifyBytes(ev.bytes, ev.signature, ev.pubkey) # "true"
       THEN "invalid_signature"
     ELSE IF raw.err # "none" THEN "invalid_cbor"
     ELSE IF ~parsed.ok THEN "schema_validation_failed"
     ELSE IF opts.expectedDealId.given
             /\ parsed.ticket.deal_id # opts.expectedDealId.value
       THEN "mismatched_deal_id"
     ELSE IF opts.expectedAction.given
             /\ parsed.ticket.action # opts.expectedAction.value
       THEN "mismatched_action"
     ELSE IF ~(parsed.ticket.expires_at + skew >= now) THEN "ticket_expired"
     ELSE "none"

\* C25: decodeAndVerifyTicket returns ok = true only if the signature
\* verifies over the received bytes, the bytes decode, the decoded value
\* passes the schema, the expected deal id and action, where given, match,
\* and expires_at + maxSkewSeconds >= now; a refusal names the first of these
\* checks that fails; and no byte is decoded before the signature has
\* verified.
C25_CheckOrder ==
  /\ ev.stage = "returned" /\ ev.reason # "invalid_envelope_schema"
       => /\ ev.ok <=> firstFailure = "none"
          /\ ~ev.ok => ev.reason = firstFailure
  /\ ev.stage \in {"verified", "decoded", "parsed", "returned", "thrown"}
       => \A i \in 1..Len(ev.done) :
            ev.done[i] \in {"decodeCbor", "schema.parse"}
              => /\ \E j \in 1..(i - 1) : ev.done[j] = "verify"
                 /\ verifyBytes(ev.bytes, ev.signature, ev.pubkey) = "true"

\* the errors of the hex-input rules
HexInputErrors ==
  {"hex string is empty", "hex string must have an even length",
   "hex string contains non-hex characters"}

\* C27: fromEnvelope applies the hex-input rules to its three hex fields: a
\* field with a non-hex character, of odd length or empty once its prefix is
\* off is turned down with a hex-input error, and no bytes made of it reach
\* the verification of the signature.
C27_EnvelopeHexInput ==
  (/\ ev.stage \notin {"none", "envelope"}
   /\ ev.fn = "fromEnvelope"
   /\ ev.env.schema = ENVELOPE_SCHEMA
   /\ \/ malformedHex(ev.env.ticket_cbor_hex)
      \/ malformedHex(ev.env.signature_hex)
      \/ malformedHex(ev.env.pubkey_hex))
    => /\ ev.stage = "thrown"
       /\ ev.thrown \in HexInputErrors
       /\ \A i \in 1..Len(ev.done) : ev.done[i] # "verify"

\* the envelope a sender makes of the ticket
honestEnvelope(t, secret) ==
  toEnvelope(encodeAndSignTicket(t, secret), toHex(derivePublicKey(secret).key))

\* C28: fromEnvelope(toEnvelope(encodeAndSignTicket(t, s),
\* hex(derivePublicKey(s))), {nowSeconds: n}) with n <= t.expires_at returns
\* ok = true and a ticket equal to t; an envelope with another schema tag is
\* answered ok = false, invalid_envelope_schema, before any hex field is
\* decoded.
C28_EnvelopeRoundTrip ==
  (ev.fn = "fromEnvelope" /\ ev.stage \in {"returned", "thrown"}) =>
    /\ (/\ ev.env = honestEnvelope(ev.origin.ticket, Seed(1))
        /\ ev.opts.nowSeconds.value <= ev.origin.ticket.expires_at)
         => (ev.stage = "returned" /\ ev.ok /\ ev.ticket = ev.origin.ticket)
    /\ ev.env.schema # ENVELOPE_SCHEMA
         => /\ ev.stage = "returned" /\ ~ev.ok
            /\ ev.reason = "invalid_envelope_schema"
            /\ ev.done = <<>>

\* a ticket read in the second it expires in comes back as it was sent
C28_Witness ==
  /\ ev.fn = "fromEnvelope" /\ ev.stage = "returned" /\ ev.ok
  /\ ev.env = honestEnvelope(ev.origin.ticket, Seed(1))
  /\ ev.opts.nowSeconds.value = ev.origin.ticket.expires_at
  /\ ev.ticket = ev.origin.ticket
  /\ ev.ticket.deal_id = "D-2"

----------------------------------------------------------------------------
(* verifyQuorum on a reordered list: claims *)

\* C29: what verifyQuorum does (true, false, or the length error thrown) does
\* not depend on the order of the pairs in the list of signatures, also when
\* a signature or a key of the wrong length is among them.
C29_OrderIndependence ==
  pm.stage = "returned" => pm.out = pm.outReordered

====
